---- MODULE Spec2Model ----
(***************************************************************************)
(* A model of the wrk command-line launcher: the argument parser of        *)
(* src/command-router.ts and the WrkCLI application of src/index.ts.       *)
(*                                                                         *)
(* SpecParse applies parseCommand to every argument list of up to MaxArgs  *)
(* tokens.  Spec runs invocations of WrkCLI.run one after another against  *)
(* a config file and a directory tree, one step per awaited operation.     *)
(* SpecOpen applies openProject to every modelled path and flag set, and   *)
(* SpecList applies listWorkspaces and listProjectsInWorkspace to every    *)
(* bounded directory listing, the stats settling in every order.           *)
(* SpecPath computes the config path under every modelled environment,     *)
(* and SpecRace interleaves invocations that share the config file.        *)
(***************************************************************************)
EXTENDS Integers, Sequences, FiniteSets, TLC

VARIABLES
  args,      \* process.argv.slice(2) of the current invocation
  cmd,       \* the Command parseCommand returned (or the error it threw)
  pc,        \* where the current invocation stands
  config,    \* WrkCLI.config, the in-memory config of the current invocation
  exitCode,  \* WrkCLI.exitCode, copied to process.exitCode when run() ends
  file,      \* the config file on disk
  dirs,      \* the directories that exist
  files,     \* the paths that exist and are not directories
  fr,        \* the locals of the handler that is running
  log,       \* what the current invocation has done so far, in order
  start,     \* history: the config file and the directories the current
             \* invocation found when it started
  hist,      \* history: what `config --set` last wrote for each key,
             \* whether a project was opened since, and the project the
             \* invocation before the current one launched the editor on
  entries,   \* SpecList: what readdir gives for the directory being listed
  settled,   \* SpecList: the stat promises, each pending or settled
  returned,  \* SpecList: what the listing returned
  env,       \* SpecPath: process.env when the constructor runs
  configPath,\* WrkCLI.configPath, set by the constructor
  procs,     \* SpecRace: the overlapping invocations, each with its step
             \* and its in-memory config
  writes     \* SpecRace, history: the writes of the config file, in order

listVars == <<entries, settled, returned>>
pathVars == <<env, configPath>>
raceVars == <<procs, writes>>

vars ==
  <<args, cmd, pc, config, exitCode, file, dirs, files, fr, log, start, hist,
    listVars, pathVars, raceVars>>

(***************************************************************************)
(* Bounds.                                                                 *)
(***************************************************************************)
MaxArgs == 4

(***************************************************************************)
(* JavaScript values.  Undefined stands for a property that was never      *)
(* assigned; an optional boolean flag is FALSE until it is set to true.    *)
(***************************************************************************)
Undefined == "<undefined>"

\* JavaScript truthiness of an optional string: `!x` is true for undefined
\* and for the empty string.
Truthy(s) == s # Undefined /\ s # ""

(***************************************************************************)
(* command-router.ts                                                       *)
(***************************************************************************)

\* const flags: Command["flags"] = {}
EmptyFlags ==
  [project |-> Undefined, json |-> FALSE, dryRun |-> FALSE, ide |-> Undefined,
   get |-> Undefined, set |-> Undefined, edit |-> FALSE]

\* A returned Command; properties the literal does not give are Undefined.
MkCommand(type, workspaceName, projectName, flags) ==
  [type |-> type, workspaceName |-> workspaceName,
   projectName |-> projectName, flags |-> flags, error |-> Undefined]

\* throw new Error(message): no Command is returned.
Throw(message) ==
  [type |-> "throw", workspaceName |-> Undefined, projectName |-> Undefined,
   flags |-> EmptyFlags, error |-> message]

\* The state of the flag-scanning loop before any token is read.
ScanStart ==
  [flags |-> EmptyFlags, workspaceName |-> Undefined,
   projectName |-> Undefined, error |-> Undefined]

\* The flag loop made strict: an unknown dash-prefixed token is an error
\* instead of a positional.
RECURSIVE ScanFlagsRejectUnknown(_, _, _)
ScanFlagsRejectUnknown(a, i, s) ==
  IF i > Len(a) THEN s
  ELSE LET arg == a[i] IN
    IF arg = "--json"
      THEN ScanFlagsRejectUnknown(a, i + 1, [s EXCEPT !.flags.json = TRUE])
    ELSE IF arg = "--dry-run"
      THEN ScanFlagsRejectUnknown(a, i + 1, [s EXCEPT !.flags.dryRun = TRUE])
    ELSE IF arg = "--project" \/ arg = "-p"
      THEN IF i + 1 > Len(a)
             THEN [s EXCEPT !.error = "--project/-p requires a project name"]
             ELSE ScanFlagsRejectUnknown(a, i + 2,
                                         [s EXCEPT !.flags.project = a[i + 1]])
    ELSE IF arg = "--ide" \/ arg = "-i"
      THEN IF i + 1 > Len(a)
             THEN [s EXCEPT !.error = "--ide/-i requires an IDE command"]
             ELSE ScanFlagsRejectUnknown(a, i + 2,
                                         [s EXCEPT !.flags.ide = a[i + 1]])
    ELSE IF Len(arg) >= 1 /\ SubSeq(arg, 1, 1) = "-"
      THEN [s EXCEPT !.error = "unknown option"]
    ELSE IF ~Truthy(s.workspaceName)
      THEN ScanFlagsRejectUnknown(a, i + 1, [s EXCEPT !.workspaceName = arg])
    ELSE IF ~Truthy(s.projectName)
      THEN ScanFlagsRejectUnknown(a, i + 1, [s EXCEPT !.projectName = arg])
    ELSE ScanFlagsRejectUnknown(a, i + 1, s)

\* The loop `for (let i = 1; i < args.length; i++)`, from index i on (1-based
\* here: the command token is a[1], the loop starts at 2).
RECURSIVE ScanFlags(_, _, _)
ScanFlags(a, i, s) ==
  IF i > Len(a) THEN s
  ELSE LET arg == a[i] IN
    IF arg = "--json"
      THEN ScanFlags(a, i + 1, [s EXCEPT !.flags.json = TRUE])
    ELSE IF arg = "--dry-run"
      THEN ScanFlags(a, i + 1, [s EXCEPT !.flags.dryRun = TRUE])
    ELSE IF arg = "--project" \/ arg = "-p"
      THEN IF i + 1 > Len(a)
             THEN [s EXCEPT !.error = "--project/-p requires a project name"]
             ELSE ScanFlags(a, i + 2, [s EXCEPT !.flags.project = a[i + 1]])
    ELSE IF arg = "--ide" \/ arg = "-i"
      THEN IF i + 1 > Len(a)
             THEN [s EXCEPT !.error = "--ide/-i requires an IDE command"]
             ELSE ScanFlags(a, i + 2, [s EXCEPT !.flags.ide = a[i + 1]])
    ELSE IF ~Truthy(s.workspaceName)
      THEN ScanFlags(a, i + 1, [s EXCEPT !.workspaceName = arg])
    ELSE IF ~Truthy(s.projectName)
      THEN ScanFlags(a, i + 1, [s EXCEPT !.projectName = arg])
    ELSE ScanFlags(a, i + 1, s)

\* args[k] of the zero-based JavaScript array, Undefined past the end.
ArgAt(a, k) == IF k + 1 <= Len(a) THEN a[k + 1] ELSE Undefined

\* The config block with `--edit` looked for in every position.
ConfigCommandEditAnywhere(a, s) ==
  IF ArgAt(a, 1) = "--get"
    THEN IF ~Truthy(ArgAt(a, 2))
           THEN Throw("Usage: wrk config --get <key>")
           ELSE MkCommand("config", Undefined, Undefined,
                          [s.flags EXCEPT !.get = ArgAt(a, 2)])
  ELSE IF ArgAt(a, 1) = "--set"
    THEN IF ~Truthy(ArgAt(a, 2))
           THEN Throw("Usage: wrk config --set <key>=<value>")
           ELSE MkCommand("config", Undefined, Undefined,
                          [s.flags EXCEPT !.set = ArgAt(a, 2)])
  ELSE IF \E k \in 2..Len(a) : a[k] = "--edit"
    THEN MkCommand("config", Undefined, Undefined,
                   [s.flags EXCEPT !.edit = TRUE])
  ELSE MkCommand("config", Undefined, Undefined, s.flags)

\* The `if (command === "config")` block.
ConfigCommand(a, s) ==
  IF ArgAt(a, 1) = "--get"
    THEN IF ~Truthy(ArgAt(a, 2))
           THEN Throw("Usage: wrk config --get <key>")
           ELSE MkCommand("config", Undefined, Undefined,
                          [s.flags EXCEPT !.get = ArgAt(a, 2)])
  ELSE IF ArgAt(a, 1) = "--set"
    THEN IF ~Truthy(ArgAt(a, 2))
           THEN Throw("Usage: wrk config --set <key>=<value>")
           ELSE MkCommand("config", Undefined, Undefined,
                          [s.flags EXCEPT !.set = ArgAt(a, 2)])
  ELSE IF ArgAt(a, 1) = "--edit"
    THEN MkCommand("config", Undefined, Undefined,
                   [s.flags EXCEPT !.edit = TRUE])
  ELSE MkCommand("config", Undefined, Undefined, s.flags)

\* HandleCommand with a `cd` that asks for the workspace name only.
HandleCommandCdOneName(a, s) ==
  LET command == a[1] IN
  IF command = "config" THEN ConfigCommand(a, s)
  ELSE IF command = "list"
    THEN MkCommand("list", s.workspaceName, Undefined, s.flags)
  ELSE IF command = "create"
    THEN IF ~Truthy(s.workspaceName)
           THEN Throw("Usage: wrk create <workspace> [project]")
           ELSE MkCommand("create", s.workspaceName, s.projectName, s.flags)
  ELSE IF command = "cd"
    THEN IF ~Truthy(s.workspaceName)
           THEN Throw("Usage: wrk cd <workspace> <project>")
           ELSE MkCommand("cd", s.workspaceName, s.projectName, s.flags)
  ELSE MkCommand("workspace", command, Undefined, s.flags)

\* The `// Handle commands` part: dispatch on the command token once the
\* flag scan has ended without throwing.
HandleCommand(a, s) ==
  LET command == a[1] IN
  IF command = "config" THEN ConfigCommand(a, s)
  ELSE IF command = "list"
    THEN MkCommand("list", s.workspaceName, Undefined, s.flags)
  ELSE IF command = "create"
    THEN IF ~Truthy(s.workspaceName)
           THEN Throw("Usage: wrk create <workspace> [project]")
           ELSE MkCommand("create", s.workspaceName, s.projectName, s.flags)
  ELSE IF command = "cd"
    THEN IF ~Truthy(s.workspaceName) \/ ~Truthy(s.projectName)
           THEN Throw("Usage: wrk cd <workspace> <project>")
           ELSE MkCommand("cd", s.workspaceName, s.projectName, s.flags)
  ELSE MkCommand("workspace", command, Undefined, s.flags)

\* parseCommand with the flag scan moved before the global flags.
parseCommandScanFirst(a) ==
  IF Len(a) = 0 THEN MkCommand("last", Undefined, Undefined, EmptyFlags)
  ELSE LET s == ScanFlags(a, 2, ScanStart) IN
    IF s.error # Undefined THEN Throw(s.error)
    ELSE IF a[1] = "--help" \/ a[1] = "-h"
      THEN MkCommand("help", Undefined, Undefined, EmptyFlags)
    ELSE IF a[1] = "--version" \/ a[1] = "-v"
      THEN MkCommand("version", Undefined, Undefined, EmptyFlags)
    ELSE IF a[1] = "--config-path"
      THEN MkCommand("config-path", Undefined, Undefined, EmptyFlags)
    ELSE HandleCommand(a, s)

\* export function parseCommand(args: string[]): Command
parseCommand(a) ==
  IF Len(a) = 0 THEN MkCommand("last", Undefined, Undefined, EmptyFlags)
  ELSE IF a[1] = "--help" \/ a[1] = "-h"
    THEN MkCommand("help", Undefined, Undefined, EmptyFlags)
  ELSE IF a[1] = "--version" \/ a[1] = "-v"
    THEN MkCommand("version", Undefined, Undefined, EmptyFlags)
  ELSE IF a[1] = "--config-path"
    THEN MkCommand("config-path", Undefined, Undefined, EmptyFlags)
  ELSE LET s == ScanFlags(a, 2, ScanStart) IN
       IF s.error # Undefined THEN Throw(s.error) ELSE HandleCommand(a, s)

(***************************************************************************)
(* Strings and paths.                                                      *)
(***************************************************************************)
LastChar(s) == SubSeq(s, Len(s), Len(s))

IsSpace(c) == c = " " \/ c = "\t"

RECURSIVE TrimStart(_)
TrimStart(s) ==
  IF s = "" THEN ""
  ELSE IF IsSpace(Head(s)) THEN TrimStart(Tail(s)) ELSE s

RECURSIVE TrimEnd(_)
TrimEnd(s) ==
  IF s = "" THEN ""
  ELSE IF IsSpace(LastChar(s)) THEN TrimEnd(SubSeq(s, 1, Len(s) - 1)) ELSE s

\* trim, were it to strip the leading whitespace only.
TrimLeadingOnly(s) == TrimStart(s)

\* String.prototype.trim
Trim(s) == TrimEnd(TrimStart(s))

\* String.prototype.startsWith
StartsWith(s, p) == Len(s) >= Len(p) /\ SubSeq(s, 1, Len(p)) = p

\* String.prototype.endsWith
EndsWith(s, p) ==
  Len(s) >= Len(p) /\ SubSeq(s, Len(s) - Len(p) + 1, Len(s)) = p

\* String.prototype.indexOf, 1-based; 0 when p does not occur in s.
RECURSIVE IndexFrom(_, _, _)
IndexFrom(s, p, i) ==
  IF i + Len(p) - 1 > Len(s) THEN 0
  ELSE IF SubSeq(s, i, i + Len(p) - 1) = p THEN i
  ELSE IndexFrom(s, p, i + 1)

IndexOf(s, p) == IndexFrom(s, p, 1)

\* String.prototype.replace with a string pattern: the first occurrence only.
ReplaceFirst(s, p, r) ==
  LET i == IndexOf(s, p) IN
  IF i = 0 THEN s
  ELSE SubSeq(s, 1, i - 1) \o r \o SubSeq(s, i + Len(p), Len(s))

\* os.homedir() and process.cwd()
HomeDir == "/home/u"
Cwd == "/home/u"

\* utils.ts: expandHomePath
expandHomePath(path) ==
  IF StartsWith(path, "~") THEN HomeDir \o Tail(path) ELSE path

\* path.resolve of one argument: an absolute path stays, a relative one is
\* taken from the current directory.
resolve(path) ==
  IF StartsWith(path, "/") THEN path
  ELSE IF path = "" THEN Cwd ELSE Cwd \o "/" \o path

\* path.join of a directory and a name
join(dir, name) == dir \o "/" \o name

\* path.dirname
RECURSIVE dirname(_)
dirname(p) ==
  IF p = "" THEN ""
  ELSE IF LastChar(p) = "/" THEN SubSeq(p, 1, Len(p) - 1)
  ELSE dirname(SubSeq(p, 1, Len(p) - 1))

\* The directories `mkdir -p` walks through before the last one.
RECURSIVE Ancestors(_)
Ancestors(p) ==
  LET d == dirname(p) IN IF d = "" THEN {} ELSE {d} \union Ancestors(d)

(***************************************************************************)
(* The file system and the environment.                                    *)
(***************************************************************************)

\* fs.stat(path) succeeds
StatOk(path) == path \in dirs \/ path \in files

\* fs.stat(path) succeeds and stats.isDirectory()
IsDirectory(path) == path \in dirs

\* `mkdir -p path` exits 0: nothing on the way is a non-directory.
MkdirOk(path) == (Ancestors(path) \union {path}) \cap files = {}

\* The directories that exist after a successful `mkdir -p path`.
MkdirP(path) == dirs \union Ancestors(path) \union {path}

\* readdir(path, {withFileTypes: true}) filtered by entry.isDirectory():
\* the names of the immediate child directories.
ChildDirs(path) == {d \in dirs : d # path /\ dirname(d) = path}

\* The commands `which` finds on the PATH, and where.
PathTable == [cursor |-> "/usr/bin/cursor", vim |-> "/usr/bin/vim"]

\* Bun.$`which ${ideCommand}`: the location, or NotFound for a nonzero exit.
NotFound == "<not found>"
Which(ideCommand) ==
  IF ideCommand \in DOMAIN PathTable THEN PathTable[ideCommand] ELSE NotFound

\* validateIdeBinary, were the fallback to stat the command as written,
\* without expandHomePath.
validateIdeBinaryAsWritten(ideCommand) ==
  IF Which(ideCommand) # NotFound THEN Which(ideCommand)
  ELSE IF StatOk(ideCommand) THEN ideCommand
  ELSE NotFound

\* The message of the Error validateIdeBinary throws.
IdeNotFoundMessage(ideCommand) ==
  "IDE command '" \o ideCommand \o "' not found. Please install it or run "
  \o "'wrk config --set ide=<your-ide>' to set a different IDE."

\* validateIdeBinary: the resolved location, or NotFound when it throws.
validateIdeBinary(ideCommand) ==
  IF Which(ideCommand) # NotFound THEN Which(ideCommand)
  ELSE IF StatOk(expandHomePath(ideCommand)) THEN expandHomePath(ideCommand)
  ELSE NotFound

\* The exit codes an editor may end with.
EditorExitCodes == {0, 1, 3}

(***************************************************************************)
(* The config.                                                             *)
(***************************************************************************)

\* The config the constructor sets before anything is loaded.
InitialConfig ==
  [workspace |-> "", ide |-> "cursor", lastProjectPath |-> Undefined]

\* The config file: absent, unreadable (or not JSON), or holding a config.
FileMissing == [kind |-> "missing", cfg |-> InitialConfig]
FileCorrupt == [kind |-> "corrupt", cfg |-> InitialConfig]
FileOf(c) == [kind |-> "ok", cfg |-> c]

\* getWorkspacePath
getWorkspacePath(c, workspaceName) ==
  join(resolve(expandHomePath(c.workspace)), workspaceName \o "-work")

\* getConfigPath with XDG_CONFIG_HOME looked at before WRK_CONFIG_HOME.
getConfigPathXdgFirst(e) ==
  LET configHome ==
        IF Truthy(e.XDG_CONFIG_HOME) THEN e.XDG_CONFIG_HOME
        ELSE IF Truthy(e.WRK_CONFIG_HOME) THEN e.WRK_CONFIG_HOME
        ELSE join(IF Truthy(e.HOME) THEN e.HOME ELSE HomeDir, ".config")
  IN resolve(join(join(configHome, "wrk"), "config.json"))

\* utils.ts: getConfigPath, from the environment variables.
getConfigPath(e) ==
  LET configHome ==
        IF Truthy(e.WRK_CONFIG_HOME) THEN e.WRK_CONFIG_HOME
        ELSE IF Truthy(e.XDG_CONFIG_HOME) THEN e.XDG_CONFIG_HOME
        ELSE join(IF Truthy(e.HOME) THEN e.HOME ELSE HomeDir, ".config")
  IN resolve(join(join(configHome, "wrk"), "config.json"))

\* process.env of the modelled invocations
ProcessEnv ==
  [WRK_CONFIG_HOME |-> Undefined, XDG_CONFIG_HOME |-> Undefined,
   HOME |-> HomeDir]

\* this.configPath, set by the constructor
ConfigPath == getConfigPath(ProcessEnv)

\* Names every JavaScript object inherits; config[key] is not undefined
\* for them.
InheritedKeys == {"constructor", "toString"}

\* this.config[key as keyof Config]
ConfigProperty(c, key) ==
  IF key = "workspace" THEN c.workspace
  ELSE IF key = "ide" THEN c.ide
  ELSE IF key = "lastProjectPath" THEN c.lastProjectPath
  ELSE IF key \in InheritedKeys THEN "[Function]"
  ELSE Undefined

\* keyValue.split("="), were the key everything before the last "=".
SplitKeyValueAtLast(keyValue) ==
  LET eqs == {j \in 1..Len(keyValue) : SubSeq(keyValue, j, j) = "="}
      i == IF eqs = {} THEN 0 ELSE CHOOSE j \in eqs : \A k \in eqs : k <= j
  IN
  IF i = 0 THEN [key |-> keyValue, hasValue |-> FALSE, value |-> ""]
  ELSE [key |-> SubSeq(keyValue, 1, i - 1), hasValue |-> TRUE,
        value |-> SubSeq(keyValue, i + 1, Len(keyValue))]

\* keyValue.split("="): the text before the first "=" and the later parts
\* joined by "=" again; parts = 0 when there is no "=" at all.
SplitKeyValue(keyValue) ==
  LET i == IndexOf(keyValue, "=") IN
  IF i = 0 THEN [key |-> keyValue, hasValue |-> FALSE, value |-> ""]
  ELSE [key |-> SubSeq(keyValue, 1, i - 1), hasValue |-> TRUE,
        value |-> SubSeq(keyValue, i + 1, Len(keyValue))]

(***************************************************************************)
(* What an invocation does, in order: each entry of log.                   *)
(***************************************************************************)
Ev(ev, x, y) == [ev |-> ev, x |-> x, y |-> y]

Out(what, x) == Ev("stdout", what, x)      \* console.log
Err(what, x) == Ev("stderr", what, x)      \* console.error
Prompt(what, answer) == Ev("prompt", what, answer)  \* inquirer.prompt

\* The flags of a call that passes none: every `flags?.x` is undefined.
NoFlags == EmptyFlags

NoFrame ==
  [ws |-> Undefined, proj |-> Undefined, flags |-> NoFlags,
   path |-> Undefined, exe |-> Undefined, next |-> Undefined]

(***************************************************************************)
(* Argument lists.                                                         *)
(***************************************************************************)
\* The tokens tried as args[0]: every token parseCommand compares args[0]
\* with, and others.
Tokens ==
  {"--help", "-h", "--version", "-v", "--config-path",
   "config", "list", "create", "cd",
   "--json", "--dry-run", "--project", "-p", "--ide", "-i",
   "--get", "--set", "--edit",
   "client", "myapp", "--verbose", ""}

\* The tokens tried after args[0]: every token the flag loop and the config
\* block compare a later token with, and others, a global flag among them.
LaterTokens ==
  {"--json", "--dry-run", "--project", "-p", "--ide", "-i",
   "--get", "--set", "--edit",
   "client", "myapp", "--verbose", "", "--help"}

\* The lists tried after args[0].
LaterLists == UNION {[1..n -> LaterTokens] : n \in 0..(MaxArgs - 1)}

NoCommand == Throw("not parsed")

\* The workspace root of the modelled tree and the paths under it.
WorkspaceSetting == "~/workspace"
RootDir == resolve(expandHomePath(WorkspaceSetting))
ClientDir == join(RootDir, "client-work")
MyappDir == join(ClientDir, "myapp")
IdeFile == "/home/u/bin/edit"

BaseDirs == Ancestors(RootDir) \union {RootDir} \union Ancestors(IdeFile)

\* The trees an invocation may find: <<directories, other files>>.
InitTrees ==
  { <<BaseDirs, {IdeFile}>>,
    <<BaseDirs \union {ClientDir}, {IdeFile}>>,
    <<BaseDirs \union {ClientDir, MyappDir}, {IdeFile}>>,
    <<BaseDirs \union {ClientDir}, {IdeFile, MyappDir}>>,
    <<BaseDirs, {IdeFile, ClientDir}>> }

\* The IDE commands a config may name.
IdeSettings == {"cursor", "nonexistent-binary", "~/bin/edit"}

InitConfigs ==
  [workspace : {WorkspaceSetting}, ide : IdeSettings,
   lastProjectPath : {Undefined, MyappDir}]

InitFiles == {FileMissing, FileCorrupt} \union {FileOf(c) : c \in InitConfigs}

\* What the user may type at the prompts.
SetupWorkspaceAnswers == {WorkspaceSetting, " ~/workspace ", "  "}
SetupIdeAnswers == {"cursor", " nonexistent-binary ", ""}
ProjectNameAnswers == {"newapp", " myapp ", " "}

\* The command lines of the modelled invocations: a command with its
\* positionals, followed by any combination of the flags.
Heads ==
  { <<"client">>, <<"create", "client">>, <<"create", "client", "newapp">>,
    <<"create", "client", "myapp">>, <<"cd", "client", "myapp">>,
    <<"cd", "client", "newapp">> }

FlagTails ==
  { d \o p \o i : d \in {<<>>, <<"--dry-run">>},
                  p \in {<<>>, <<"-p", "myapp">>, <<"--project", "other">>},
                  i \in {<<>>, <<"--ide", "nonexistent-binary">>} }

PlainArgs ==
  { <<>>, <<"--help">>, <<"-v">>, <<"--config-path">>, <<"cd", "client">>,
    <<"client", "--ide">>,
    <<"list">>, <<"list", "client">>, <<"list", "client", "--json">>,
    <<"config">>, <<"config", "--edit">>,
    <<"config", "--get", "ide">>, <<"config", "--get", "lastProjectPath">>,
    <<"config", "--get", "workspace">>,
    <<"config", "--get", "editor">>, <<"config", "--get", "constructor">>,
    <<"config", "--set", "ide=vim">>, <<"config", "--set", "ide">>,
    <<"config", "--set", "ide= ">>, <<"config", "--set", "editor=vim">>,
    <<"config", "--set", "workspace= ~/workspace ">>,
    <<"config", "--set", "=vim">>, <<"config", "--set", "ide=vim=2">> }

AppArgs == {h \o t : h \in Heads, t \in FlagTails} \union PlainArgs

(***************************************************************************)
(* index.ts: WrkCLI                                                        *)
(***************************************************************************)

\* No `config --set` has written anything yet.
NoHistory ==
  [set |-> [workspace |-> Undefined, ide |-> Undefined], opened |-> FALSE,
   launched |-> Undefined]

\* The history once setConfigValue has saved `value` for `key`: a write
\* that fails leaves the file, and so the history, as it was.
HistoryAfterSet(key, value, ok) ==
  IF ~ok THEN hist
  ELSE [hist EXCEPT !.set[key] = value, !.opened = FALSE]

\* The history once updateLastProjectPath has saved the config: a project
\* was opened since the last `config --set`, if there was one.
HistoryAfterOpen(ok) ==
  IF ok /\ hist.set # NoHistory.set THEN [hist EXCEPT !.opened = TRUE]
  ELSE hist

\* The project path an invocation that did `events` saved as lastProjectPath
\* and started the editor on; Undefined when it did not do both.
LaunchedOn(events) ==
  LET spawns == {i \in 1..Len(events) : events[i].ev = "spawn"} IN
  IF spawns = {} THEN Undefined
  ELSE LET path == events[CHOOSE i \in spawns : TRUE].y IN
       IF \E k \in 1..Len(events) : events[k] = Ev("save", "ok", path)
         THEN path ELSE Undefined

\* saveConfig, were a write that fails to leave an unreadable file behind.
SavedFileTruncatedOnFailure(c, ok) == IF ok THEN FileOf(c) ELSE FileCorrupt

\* saveConfig(c): the write succeeds (ok) or its error is caught and logged.
SavedFile(c, ok) == IF ok THEN FileOf(c) ELSE file

SaveEvents(c, ok) ==
  IF ok THEN <<Ev("save", "ok", c.lastProjectPath)>>
  ELSE <<Ev("save", "failed", c.lastProjectPath), Err("Error saving config", "")>>

\* run() returns: process.exitCode takes exitCode when it is not 0.
Finish(code, events) ==
  /\ pc' = "done"
  /\ exitCode' = code
  /\ log' = log \o events

\* The handler goes on at `next` after doing `events`.
Goto(next, events) ==
  /\ pc' = next
  /\ log' = log \o events
  /\ UNCHANGED exitCode

\* run(args), were the config loaded before the command is looked at.
RunLoadsFirst(a) ==
  /\ pc = "idle"
  /\ args' = a
  /\ cmd' = parseCommand(a)
  /\ config' = InitialConfig
  /\ LET c == parseCommand(a) IN
       IF c.type = "throw"
         THEN /\ pc' = "done" /\ exitCode' = 1 /\ fr' = NoFrame
              /\ log' = <<Err("error", c.error)>>
       ELSE /\ pc' = "initialize" /\ exitCode' = 0
            /\ fr' = [NoFrame EXCEPT !.next = "dispatch"]
            /\ log' = <<>>
  /\ start' = [file |-> file, dirs |-> dirs]
  /\ UNCHANGED <<hist, listVars, pathVars, raceVars>>
  /\ UNCHANGED <<file, dirs, files>>

\* run(args), to its first await: a new process parses its arguments and
\* serves help, version and config-path without loading the config.
Run(a) ==
  /\ pc = "idle"
  /\ args' = a
  /\ cmd' = parseCommand(a)
  /\ config' = InitialConfig
  /\ LET c == parseCommand(a) IN
       IF c.type = "throw"
         THEN /\ pc' = "done" /\ exitCode' = 1 /\ fr' = NoFrame
              /\ log' = <<Err("error", c.error)>>
       ELSE IF c.type \in {"help", "version", "config-path"}
         THEN /\ pc' = "done" /\ exitCode' = 0 /\ fr' = NoFrame
              /\ log' = <<Out(c.type, "")>>
       ELSE /\ pc' = "initialize" /\ exitCode' = 0
            /\ fr' = [NoFrame EXCEPT !.next = "dispatch"]
            /\ log' = <<>>
  /\ start' = [file |-> file, dirs |-> dirs]
  /\ UNCHANGED <<hist, listVars, pathVars, raceVars>>
  /\ UNCHANGED <<file, dirs, files>>

\* loadConfig when the file exists and parses.
LoadConfig ==
  /\ pc = "initialize"
  /\ file.kind = "ok"
  /\ config' = file.cfg
  /\ Goto(fr.next, <<Ev("read", "config", "ok")>>)
  /\ UNCHANGED <<args, cmd, file, dirs, files, fr, start, hist,
               listVars, pathVars, raceVars>>

\* createDefaultConfig, were a file that cannot be read or parsed to end the
\* invocation instead of starting first-run setup.
CreateDefaultConfigAbortsOnCorrupt ==
  /\ pc = "initialize"
  /\ file.kind # "ok"
  /\ IF file.kind = "corrupt"
       THEN /\ Finish(1, <<Ev("read", "config", "failed"),
                           Err("Error loading config", "")>>)
            /\ UNCHANGED <<config, file>>
       ELSE \E w \in SetupWorkspaceAnswers, i \in SetupIdeAnswers,
               ok \in BOOLEAN :
              /\ Trim(w) # "" /\ Trim(i) # ""
              /\ LET c == [workspace |-> Trim(w), ide |-> Trim(i),
                           lastProjectPath |-> Undefined]
                 IN /\ config' = c
                    /\ file' = SavedFile(c, ok)
                    /\ Goto(fr.next,
                            <<Out("setup", ""), Prompt("workspace", w),
                              Prompt("ide", i)>>
                            \o SaveEvents(c, ok)
                            \o <<Out("Created config", "")>>)
  /\ UNCHANGED <<args, cmd, dirs, files, fr, start, hist,
               listVars, pathVars, raceVars>>

\* loadConfig when the file is missing or cannot be read or parsed:
\* createDefaultConfig asks for both values and saves them.
CreateDefaultConfig ==
  /\ pc = "initialize"
  /\ file.kind # "ok"
  /\ \E w \in SetupWorkspaceAnswers, i \in SetupIdeAnswers, ok \in BOOLEAN :
       /\ Trim(w) # "" /\ Trim(i) # ""        \* the prompts' validate
       /\ LET c == [workspace |-> Trim(w), ide |-> Trim(i),
                    lastProjectPath |-> Undefined]
          IN /\ config' = c
             /\ file' = SavedFile(c, ok)
             /\ Goto(fr.next,
                     (IF file.kind = "corrupt"
                        THEN <<Ev("read", "config", "failed"),
                               Err("Error loading config", "")>>
                        ELSE <<>>)
                     \o <<Out("setup", ""), Prompt("workspace", w),
                          Prompt("ide", i)>>
                     \o SaveEvents(c, ok)
                     \o <<Out("Created config", "")>>)
  /\ UNCHANGED <<args, cmd, dirs, files, fr, start, hist,
               listVars, pathVars, raceVars>>

\* openProject(projectPath, flags) is entered.
CallOpenProject(path, flags, events) ==
  /\ fr' = [fr EXCEPT !.path = path, !.flags = flags]
  /\ Goto("openProject", events)

\* openLastProject, were the check of the directory left to openProject.
OpenLastProjectUnchecked ==
  /\ pc = "dispatch"
  /\ cmd.type = "last"
  /\ IF ~Truthy(config.lastProjectPath)
       THEN Finish(exitCode, <<Out("No last project found", "")>>)
            /\ UNCHANGED fr
     ELSE CallOpenProject(config.lastProjectPath, NoFlags,
            <<Out("Opening last project", config.lastProjectPath)>>)
  /\ UNCHANGED <<args, cmd, config, file, dirs, files, start, hist,
               listVars, pathVars, raceVars>>

\* case "last": openLastProject
OpenLastProject ==
  /\ pc = "dispatch"
  /\ cmd.type = "last"
  /\ IF ~Truthy(config.lastProjectPath)
       THEN Finish(exitCode, <<Out("No last project found", "")>>)
            /\ UNCHANGED fr
     ELSE IF ~IsDirectory(config.lastProjectPath)
       THEN Finish(exitCode, <<Out("Last project no longer exists", "")>>)
            /\ UNCHANGED fr
     ELSE CallOpenProject(config.lastProjectPath, NoFlags,
            <<Out("Opening last project", config.lastProjectPath)>>)
  /\ UNCHANGED <<args, cmd, config, file, dirs, files, start, hist,
               listVars, pathVars, raceVars>>

\* case "workspace": openWorkspace(command.workspaceName, command.flags)
DispatchWorkspace ==
  /\ pc = "dispatch"
  /\ cmd.type = "workspace"
  /\ IF Truthy(cmd.workspaceName)
       THEN /\ fr' = [fr EXCEPT !.ws = cmd.workspaceName, !.flags = cmd.flags,
                                !.next = "openWorkspace"]
            /\ Goto("ensureWorkspace", <<>>)
       ELSE Finish(exitCode, <<>>) /\ UNCHANGED fr
  /\ UNCHANGED <<args, cmd, config, file, dirs, files, start, hist,
               listVars, pathVars, raceVars>>

\* case "create": createProjectNonInteractive with both names, else
\* createProjectInWorkspace(command.workspaceName), which takes no flags.
DispatchCreate ==
  /\ pc = "dispatch"
  /\ cmd.type = "create"
  /\ IF ~Truthy(cmd.workspaceName)
       THEN Finish(exitCode, <<>>) /\ UNCHANGED fr
     ELSE IF Truthy(cmd.projectName)
       THEN /\ fr' = [fr EXCEPT !.ws = cmd.workspaceName,
                                !.proj = cmd.projectName, !.flags = cmd.flags,
                                !.next = "createNonInteractive"]
            /\ Goto("ensureWorkspace", <<>>)
     ELSE /\ fr' = [fr EXCEPT !.ws = cmd.workspaceName, !.flags = NoFlags,
                              !.next = "createInWorkspace"]
          /\ Goto("ensureWorkspace", <<>>)
  /\ UNCHANGED <<args, cmd, config, file, dirs, files, start, hist,
               listVars, pathVars, raceVars>>

\* case "cd": cdToProject(workspaceName, projectName, flags)
DispatchCd ==
  /\ pc = "dispatch"
  /\ cmd.type = "cd"
  /\ IF Truthy(cmd.workspaceName) /\ Truthy(cmd.projectName)
       THEN /\ fr' = [fr EXCEPT !.ws = cmd.workspaceName,
                                !.proj = cmd.projectName, !.flags = cmd.flags,
                                !.next = "cdToProject"]
            /\ Goto("ensureWorkspace", <<>>)
       ELSE Finish(exitCode, <<>>) /\ UNCHANGED fr
  /\ UNCHANGED <<args, cmd, config, file, dirs, files, start, hist,
               listVars, pathVars, raceVars>>

\* path.basename
basename(p) == SubSeq(p, Len(dirname(p)) + 2, Len(p))

\* listProjectsInWorkspace: one ProjectInfo per child directory whose stat
\* succeeded (failed: the children whose stat threw); empty when the
\* workspace directory cannot be read.  The order is not kept here.
listProjectsInWorkspace(c, workspaceName, failed) ==
  LET workspacePath == getWorkspacePath(c, workspaceName) IN
  IF ~IsDirectory(workspacePath) THEN {}
  ELSE { [name |-> basename(d), path |-> join(workspacePath, basename(d))] :
           d \in ChildDirs(workspacePath) \ failed }

\* ensureWorkspaceExists(workspaceName)
EnsureWorkspaceExists ==
  /\ pc = "ensureWorkspace"
  /\ LET workspacePath == getWorkspacePath(config, fr.ws) IN
     IF IsDirectory(workspacePath)
       THEN Goto(fr.next, <<>>) /\ UNCHANGED dirs
     ELSE \E shouldCreate \in BOOLEAN :
       IF shouldCreate
         THEN IF MkdirOk(workspacePath)
                THEN /\ dirs' = MkdirP(workspacePath)
                     /\ Goto(fr.next,
                             <<Prompt("Create workspace?", "yes"),
                               Ev("mkdir", workspacePath, "ok"),
                               Out("Created workspace", workspacePath)>>)
                \* the shell error leaves through run()'s catch
                ELSE /\ Finish(1, <<Prompt("Create workspace?", "yes"),
                                    Ev("mkdir", workspacePath, "failed"),
                                    Err("error", "mkdir")>>)
                     /\ UNCHANGED dirs
         \* this.exitCode = 0; return: the caller goes on
         ELSE /\ pc' = fr.next
              /\ exitCode' = 0
              /\ log' = Append(log, Prompt("Create workspace?", "no"))
              /\ UNCHANGED dirs
  /\ UNCHANGED <<args, cmd, config, file, files, fr, start, hist,
               listVars, pathVars, raceVars>>

\* createProjectInWorkspace(workspaceName) is entered: it takes no flags
\* and starts with ensureWorkspaceExists.
CallCreateProjectInWorkspace(events) ==
  /\ fr' = [fr EXCEPT !.flags = NoFlags, !.next = "createInWorkspace"]
  /\ Goto("ensureWorkspace", events)

\* openWorkspace, were a --project that names no listed project to open
\* some listed project instead of failing.
OpenWorkspaceAnyProject ==
  /\ pc = "openWorkspace"
  /\ \E failed \in SUBSET ChildDirs(getWorkspacePath(config, fr.ws)) :
     LET projects == listProjectsInWorkspace(config, fr.ws, failed) IN
     IF projects = {}
       THEN IF Truthy(fr.flags.project)
              THEN Finish(1, <<Err("No projects found", fr.flags.project)>>)
                   /\ UNCHANGED fr
            ELSE \E shouldCreate \in BOOLEAN :
              IF shouldCreate
                THEN CallCreateProjectInWorkspace(
                       <<Prompt("Create a new project?", "yes")>>)
                ELSE Finish(exitCode, <<Prompt("Create a new project?", "no")>>)
                     /\ UNCHANGED fr
     ELSE IF Truthy(fr.flags.project)
       THEN \E project \in projects :
              CallOpenProject(project.path, fr.flags, <<>>)
     ELSE \E selected \in projects :
            CallOpenProject(selected.path, fr.flags,
                            <<Prompt("Select a project:", selected.path)>>)
  /\ UNCHANGED <<args, cmd, config, file, dirs, files, start, hist,
               listVars, pathVars, raceVars>>

\* openWorkspace after ensureWorkspaceExists
OpenWorkspace ==
  /\ pc = "openWorkspace"
  /\ \E failed \in SUBSET ChildDirs(getWorkspacePath(config, fr.ws)) :
     LET projects == listProjectsInWorkspace(config, fr.ws, failed) IN
     IF projects = {}
       THEN IF Truthy(fr.flags.project)
              THEN Finish(1, <<Err("No projects found", fr.flags.project)>>)
                   /\ UNCHANGED fr
            ELSE \E shouldCreate \in BOOLEAN :
              IF shouldCreate
                THEN CallCreateProjectInWorkspace(
                       <<Prompt("Create a new project?", "yes")>>)
                ELSE Finish(exitCode, <<Prompt("Create a new project?", "no")>>)
                     /\ UNCHANGED fr
     ELSE IF Truthy(fr.flags.project)
       THEN IF \E q \in projects : q.name = fr.flags.project
              THEN LET project == CHOOSE q \in projects :
                                     q.name = fr.flags.project
                   IN CallOpenProject(project.path, fr.flags, <<>>)
              ELSE Finish(1, <<Err("Project not found in workspace",
                                   fr.flags.project),
                               Err("Available projects", "")>>)
                   /\ UNCHANGED fr
     ELSE \E selected \in projects :
            CallOpenProject(selected.path, fr.flags,
                            <<Prompt("Select a project:", selected.path)>>)
  /\ UNCHANGED <<args, cmd, config, file, dirs, files, start, hist,
               listVars, pathVars, raceVars>>

\* createProjectInWorkspace after ensureWorkspaceExists
CreateProjectInWorkspace ==
  /\ pc = "createInWorkspace"
  /\ \E answer \in ProjectNameAnswers :
       /\ Trim(answer) # ""                      \* the prompt's validate
       /\ LET projectName == Trim(answer)
              projectPath == join(getWorkspacePath(config, fr.ws), projectName)
              asked == Prompt("Enter project name", answer)
          IN IF StatOk(projectPath)
               THEN Finish(1, <<asked, Err("already exists", projectName)>>)
                    /\ UNCHANGED <<dirs, fr>>
             ELSE IF ~MkdirOk(projectPath)
               THEN Finish(1, <<asked, Ev("mkdir", projectPath, "failed"),
                                Err("Error creating project", "")>>)
                    /\ UNCHANGED <<dirs, fr>>
             ELSE /\ dirs' = MkdirP(projectPath)
                  /\ CallOpenProject(projectPath, NoFlags,
                       <<asked, Ev("mkdir", projectPath, "ok"),
                         Out("Created project", projectPath)>>)
  /\ UNCHANGED <<args, cmd, config, file, files, start, hist,
               listVars, pathVars, raceVars>>

\* createProjectNonInteractive, were the dry-run block to come before the
\* check that nothing exists at the project path.
CreateProjectNonInteractiveDryRunFirst ==
  /\ pc = "createNonInteractive"
  /\ LET projectPath == join(getWorkspacePath(config, fr.ws), fr.proj) IN
     IF fr.flags.dryRun
       THEN Finish(exitCode, <<Out("Would create project", projectPath)>>)
            /\ UNCHANGED <<dirs, fr>>
     ELSE IF StatOk(projectPath)
       THEN Finish(1, <<Err("already exists", fr.proj)>>)
            /\ UNCHANGED <<dirs, fr>>
     ELSE IF ~MkdirOk(projectPath)
       THEN Finish(1, <<Ev("mkdir", projectPath, "failed"),
                        Err("Error creating project", "")>>)
            /\ UNCHANGED <<dirs, fr>>
     ELSE /\ dirs' = MkdirP(projectPath)
          /\ CallOpenProject(projectPath, fr.flags,
               <<Ev("mkdir", projectPath, "ok"),
                 Out("Created project", projectPath)>>)
  /\ UNCHANGED <<args, cmd, config, file, files, start, hist,
               listVars, pathVars, raceVars>>

\* createProjectNonInteractive after ensureWorkspaceExists
CreateProjectNonInteractive ==
  /\ pc = "createNonInteractive"
  /\ LET projectPath == join(getWorkspacePath(config, fr.ws), fr.proj) IN
     IF StatOk(projectPath)
       THEN Finish(1, <<Err("already exists", fr.proj)>>)
            /\ UNCHANGED <<dirs, fr>>
     ELSE IF fr.flags.dryRun
       THEN Finish(exitCode, <<Out("Would create project", projectPath)>>)
            /\ UNCHANGED <<dirs, fr>>
     ELSE IF ~MkdirOk(projectPath)
       THEN Finish(1, <<Ev("mkdir", projectPath, "failed"),
                        Err("Error creating project", "")>>)
            /\ UNCHANGED <<dirs, fr>>
     ELSE /\ dirs' = MkdirP(projectPath)
          /\ CallOpenProject(projectPath, fr.flags,
               <<Ev("mkdir", projectPath, "ok"),
                 Out("Created project", projectPath)>>)
  /\ UNCHANGED <<args, cmd, config, file, files, start, hist,
               listVars, pathVars, raceVars>>

\* cdToProject, were anything found at the project path accepted.
CdToProjectAnyFile ==
  /\ pc = "cdToProject"
  /\ LET projectPath == join(getWorkspacePath(config, fr.ws), fr.proj) IN
     IF ~StatOk(projectPath)
       THEN Finish(1, <<Err("Project not found in workspace", fr.proj)>>)
     ELSE IF fr.flags.dryRun
       THEN Finish(exitCode, <<Out("Would cd to", projectPath)>>)
     ELSE Finish(exitCode, <<Out("path", projectPath)>>)
  /\ UNCHANGED <<args, cmd, config, file, dirs, files, fr, start, hist,
               listVars, pathVars, raceVars>>

\* cdToProject after ensureWorkspaceExists
CdToProject ==
  /\ pc = "cdToProject"
  /\ LET projectPath == join(getWorkspacePath(config, fr.ws), fr.proj) IN
     IF ~IsDirectory(projectPath)
       THEN Finish(1, <<Err("Project not found in workspace", fr.proj)>>)
     ELSE IF fr.flags.dryRun
       THEN Finish(exitCode, <<Out("Would cd to", projectPath)>>)
     ELSE Finish(exitCode, <<Out("path", projectPath)>>)
  /\ UNCHANGED <<args, cmd, config, file, dirs, files, fr, start, hist,
               listVars, pathVars, raceVars>>

\* flags?.ide || this.config.ide
IdeToUse(flags, c) == IF Truthy(flags.ide) THEN flags.ide ELSE c.ide

\* openProject, were the IDE to be validated before lastProjectPath is saved.
OpenProjectValidatesFirst ==
  /\ pc = "openProject"
  /\ IF ~IsDirectory(fr.path)
       THEN Finish(1, <<Ev("open", fr.path, ""),
                        Err("Project not found at", fr.path)>>)
     ELSE IF fr.flags.dryRun
       THEN Finish(exitCode,
                   <<Ev("open", fr.path, ""),
                     Out("Would open project", fr.path),
                     Out("Would use IDE", IdeToUse(fr.flags, config))>>)
     ELSE Goto("validateIdeBinary", <<Ev("open", fr.path, "")>>)
  /\ UNCHANGED <<args, cmd, config, file, dirs, files, fr, start, hist,
               listVars, pathVars, raceVars>>

\* openProject, were the dry-run block missing.
OpenProjectWithoutDryRun ==
  /\ pc = "openProject"
  /\ IF ~IsDirectory(fr.path)
       THEN Finish(1, <<Ev("open", fr.path, ""),
                        Err("Project not found at", fr.path)>>)
     ELSE Goto("updateLastProjectPath", <<Ev("open", fr.path, "")>>)
  /\ UNCHANGED <<args, cmd, config, file, dirs, files, fr, start, hist,
               listVars, pathVars, raceVars>>

\* openProject, were anything found at the project path accepted.
OpenProjectAnyFile ==
  /\ pc = "openProject"
  /\ IF ~StatOk(fr.path)
       THEN Finish(1, <<Ev("open", fr.path, ""),
                        Err("Project not found at", fr.path)>>)
     ELSE IF fr.flags.dryRun
       THEN Finish(exitCode,
                   <<Ev("open", fr.path, ""),
                     Out("Would open project", fr.path),
                     Out("Would use IDE", IdeToUse(fr.flags, config))>>)
     ELSE Goto("updateLastProjectPath", <<Ev("open", fr.path, "")>>)
  /\ UNCHANGED <<args, cmd, config, file, dirs, files, fr, start, hist,
                 listVars, pathVars, raceVars>>

\* openProject, to the end of the dry-run block
OpenProject ==
  /\ pc = "openProject"
  /\ IF ~IsDirectory(fr.path)
       THEN Finish(1, <<Ev("open", fr.path, ""),
                        Err("Project not found at", fr.path)>>)
     ELSE IF fr.flags.dryRun
       THEN Finish(exitCode,
                   <<Ev("open", fr.path, ""),
                     Out("Would open project", fr.path),
                     Out("Would use IDE", IdeToUse(fr.flags, config))>>)
     ELSE Goto("updateLastProjectPath", <<Ev("open", fr.path, "")>>)
  /\ UNCHANGED <<args, cmd, config, file, dirs, files, fr, start, hist,
               listVars, pathVars, raceVars>>

\* updateLastProjectPath, were it to save a fresh default config with the
\* path instead of the loaded one.
UpdateLastProjectPathOnDefaults ==
  /\ pc = "updateLastProjectPath"
  /\ \E ok \in BOOLEAN :
       LET c == [InitialConfig EXCEPT !.lastProjectPath = fr.path] IN
       /\ config' = c
       /\ file' = SavedFile(c, ok)
       /\ hist' = HistoryAfterOpen(ok)
       /\ Goto("validateIdeBinary", SaveEvents(c, ok))
  /\ UNCHANGED <<args, cmd, dirs, files, fr, start, listVars, pathVars, raceVars>>

\* updateLastProjectPath, were it to change the in-memory config only and
\* leave the file alone.
UpdateLastProjectPathInMemory ==
  /\ pc = "updateLastProjectPath"
  /\ \E ok \in BOOLEAN :
       LET c == [config EXCEPT !.lastProjectPath = fr.path] IN
       /\ config' = c
       /\ file' = file
       /\ hist' = HistoryAfterOpen(ok)
       /\ Goto("validateIdeBinary", SaveEvents(c, ok))
  /\ UNCHANGED <<args, cmd, dirs, files, fr, start, listVars, pathVars, raceVars>>

\* updateLastProjectPath(projectPath)
UpdateLastProjectPath ==
  /\ pc = "updateLastProjectPath"
  /\ \E ok \in BOOLEAN :
       LET c == [config EXCEPT !.lastProjectPath = fr.path] IN
       /\ config' = c
       /\ file' = SavedFile(c, ok)
       /\ hist' = HistoryAfterOpen(ok)
       /\ Goto("validateIdeBinary", SaveEvents(c, ok))
  /\ UNCHANGED <<args, cmd, dirs, files, fr, start, listVars, pathVars, raceVars>>

\* const validatedIde = await this.validateIdeBinary(ideToUse); a throw is
\* caught by openProject's catch, which prints the message.
ValidateIdeBinary ==
  /\ pc = "validateIdeBinary"
  /\ LET ideToUse == IdeToUse(fr.flags, config)
         validatedIde == validateIdeBinary(ideToUse)
     IN IF validatedIde = NotFound
          THEN Finish(1, <<Ev("resolve", ideToUse, NotFound),
                           Err("IDE command not found", ideToUse)>>)
               /\ UNCHANGED fr
          ELSE /\ fr' = [fr EXCEPT !.exe = validatedIde]
               /\ Goto("spawn", <<Ev("resolve", ideToUse, validatedIde)>>)
  /\ UNCHANGED <<args, cmd, config, file, dirs, files, start, hist,
               listVars, pathVars, raceVars>>

\* Bun.spawn([validatedIde, projectPath], ...): a directory cannot be run,
\* and the throw is caught by openProject's catch.
Spawn ==
  /\ pc = "spawn"
  /\ IF IsDirectory(fr.exe)
       THEN Finish(1, <<Err("error", "spawn")>>)
       ELSE Goto("exited", <<Ev("spawn", fr.exe, fr.path)>>)
  /\ UNCHANGED <<args, cmd, config, file, dirs, files, fr, start, hist,
               listVars, pathVars, raceVars>>

\* process.exited, were every nonzero editor exit code reported as 1.
ExitedAsFailure ==
  /\ pc = "exited"
  /\ \E code \in EditorExitCodes :
       IF code # 0
         THEN Finish(1, <<Ev("exited", fr.exe, ToString(code)),
                          Err("IDE exited with code", ToString(code))>>)
         ELSE Finish(exitCode, <<Ev("exited", fr.exe, ToString(code))>>)
  /\ UNCHANGED <<args, cmd, config, file, dirs, files, fr, start, hist,
               listVars, pathVars, raceVars>>

\* const exitCode = await process.exited
Exited ==
  /\ pc = "exited"
  /\ \E code \in EditorExitCodes :
       IF code # 0
         THEN Finish(code, <<Ev("exited", fr.exe, ToString(code)),
                             Err("IDE exited with code", ToString(code))>>)
         ELSE Finish(exitCode, <<Ev("exited", fr.exe, ToString(code))>>)
  /\ UNCHANGED <<args, cmd, config, file, dirs, files, fr, start, hist,
               listVars, pathVars, raceVars>>

\* case "config": getConfigValue, setConfigValue and editConfig start with
\* another initialize(); a bare `config` goes to openConfig.
DispatchConfig ==
  /\ pc = "dispatch"
  /\ cmd.type = "config"
  /\ IF Truthy(cmd.flags.get)
       THEN /\ fr' = [fr EXCEPT !.next = "getConfigValue"]
            /\ Goto("initialize", <<>>)
     ELSE IF Truthy(cmd.flags.set)
       THEN /\ fr' = [fr EXCEPT !.next = "setConfigValue"]
            /\ Goto("initialize", <<>>)
     ELSE IF cmd.flags.edit
       THEN /\ fr' = [fr EXCEPT !.next = "openConfig"]
            /\ Goto("initialize", <<>>)
     ELSE Goto("openConfig", <<>>) /\ UNCHANGED fr
  /\ UNCHANGED <<args, cmd, config, file, dirs, files, start, hist,
               listVars, pathVars, raceVars>>

\* getConfigValue(key) after initialize()
GetConfigValue ==
  /\ pc = "getConfigValue"
  /\ LET key == cmd.flags.get
         value == ConfigProperty(config, key)
     IN IF value = Undefined
          THEN Finish(1, <<Err("Config key not found", key),
                           Err("Available keys", "")>>)
          ELSE Finish(exitCode, <<Out("value", value)>>)
  /\ UNCHANGED <<args, cmd, config, file, dirs, files, fr, start, hist,
               listVars, pathVars, raceVars>>

\* setConfigValue(keyValue) after initialize()
SetConfigValue ==
  /\ pc = "setConfigValue"
  /\ LET kv == SplitKeyValue(cmd.flags.set) IN
     IF kv.key = "" \/ ~kv.hasValue
       THEN Finish(1, <<Err("Usage: wrk config --set <key>=<value>", "")>>)
            /\ UNCHANGED <<config, file, hist>>
     ELSE IF kv.key \notin {"workspace", "ide"}
       THEN Finish(1, <<Err("Invalid config key", kv.key)>>)
            /\ UNCHANGED <<config, file, hist>>
     ELSE IF Trim(kv.value) = ""
       THEN Finish(1, <<Err("Value cannot be empty", kv.key)>>)
            /\ UNCHANGED <<config, file, hist>>
     ELSE \E ok \in BOOLEAN :
       LET c == IF kv.key = "workspace"
                  THEN [config EXCEPT !.workspace = Trim(kv.value)]
                  ELSE [config EXCEPT !.ide = Trim(kv.value)]
       IN /\ config' = c
          /\ file' = SavedFile(c, ok)
          /\ hist' = HistoryAfterSet(kv.key, Trim(kv.value), ok)
          /\ Finish(exitCode,
                    SaveEvents(c, ok) \o <<Out("Updated " \o kv.key \o " to:",
                                              Trim(kv.value))>>)
  /\ UNCHANGED <<args, cmd, dirs, files, fr, start, listVars, pathVars, raceVars>>

\* openConfig, to the spawn of the editor on the config file
OpenConfig ==
  /\ pc = "openConfig"
  /\ IF file.kind = "missing"
       THEN Finish(exitCode, <<Out("Config file does not exist", "")>>)
            /\ UNCHANGED fr
     ELSE LET validatedIde == validateIdeBinary(config.ide) IN
       IF validatedIde = NotFound
         THEN Finish(1, <<Ev("resolve", config.ide, NotFound),
                          Err("IDE command not found", config.ide)>>)
              /\ UNCHANGED fr
       ELSE IF IsDirectory(validatedIde)
         THEN Finish(1, <<Ev("resolve", config.ide, validatedIde),
                          Err("error", "spawn")>>)
              /\ UNCHANGED fr
       ELSE /\ fr' = [fr EXCEPT !.exe = validatedIde, !.path = ConfigPath]
            /\ Goto("configExited",
                    <<Ev("resolve", config.ide, validatedIde),
                      Ev("spawn", validatedIde, ConfigPath)>>)
  /\ UNCHANGED <<args, cmd, config, file, dirs, files, start, hist,
               listVars, pathVars, raceVars>>

\* openConfig: const exitCode = await process.exited
ConfigExited ==
  /\ pc = "configExited"
  /\ \E code \in EditorExitCodes :
       IF code # 0
         THEN Finish(code, <<Ev("exited", fr.exe, ToString(code)),
                             Err("IDE exited with code", ToString(code))>>)
         ELSE Finish(exitCode, <<Ev("exited", fr.exe, ToString(code))>>)
  /\ UNCHANGED <<args, cmd, config, file, dirs, files, fr, start, hist,
               listVars, pathVars, raceVars>>

\* listWorkspaces: the names of the child directories of the root that end
\* with "-work", with the first "-work" replaced by nothing; empty when the
\* root cannot be read.  The order is not kept here.
listWorkspaces(c) ==
  LET workspacePath == resolve(expandHomePath(c.workspace)) IN
  IF ~IsDirectory(workspacePath) THEN {}
  ELSE { ReplaceFirst(basename(d), "-work", "") :
           d \in {e \in ChildDirs(workspacePath) : EndsWith(basename(e), "-work")} }

\* A set of lines as console output, in some fixed order.
RECURSIVE Lines(_, _)
Lines(what, S) ==
  IF S = {} THEN <<>>
  ELSE LET x == CHOOSE y \in S : TRUE IN <<Out(what, x)>> \o Lines(what, S \ {x})

\* case "list" without a workspace name: listAllWorkspaces
ListAllWorkspaces ==
  /\ pc = "dispatch"
  /\ cmd.type = "list"
  /\ ~Truthy(cmd.workspaceName)
  /\ LET workspaces == listWorkspaces(config) IN
     IF workspaces = {}
       THEN Finish(exitCode, <<Out("No workspaces found.", ""),
                               Out("Workspace directory",
                                   expandHomePath(config.workspace))>>)
       ELSE \E failed \in SUBSET UNION {ChildDirs(getWorkspacePath(config, w)) :
                                          w \in workspaces} :
         Finish(exitCode,
           <<Out("Available workspaces:", "")>> \o
           Lines("count",
             { w \o " (" \o
               ToString(Cardinality(listProjectsInWorkspace(config, w, failed)))
               \o " projects)" : w \in workspaces }))
  /\ UNCHANGED <<args, cmd, config, file, dirs, files, fr, start, hist,
               listVars, pathVars, raceVars>>

\* case "list" with a workspace name: listProjectsInWorkspaceWithFlags
ListProjectsInWorkspaceWithFlags ==
  /\ pc = "dispatch"
  /\ cmd.type = "list"
  /\ Truthy(cmd.workspaceName)
  /\ \E failed \in SUBSET ChildDirs(getWorkspacePath(config, cmd.workspaceName)) :
     LET projects == listProjectsInWorkspace(config, cmd.workspaceName, failed)
         names == {q.name : q \in projects}
     IN IF cmd.flags.json
          THEN Finish(exitCode, <<Out("json", cmd.workspaceName)>>
                                \o Lines("json project", names))
        ELSE IF projects = {}
          THEN Finish(exitCode, <<Out("No projects found in", cmd.workspaceName)>>)
        ELSE Finish(exitCode, <<Out("Projects in", cmd.workspaceName)>>
                              \o Lines("project", names))
  /\ UNCHANGED <<args, cmd, config, file, dirs, files, fr, start, hist,
               listVars, pathVars, raceVars>>

\* The process ends; the next invocation is a new process, which shares
\* only the config file and the directory tree with this one.
ProcessExit ==
  /\ pc = "done"
  /\ pc' = "idle"
  /\ args' = <<>>
  /\ cmd' = NoCommand
  /\ config' = InitialConfig
  /\ exitCode' = 0
  /\ fr' = NoFrame
  /\ log' = <<>>
  /\ start' = [file |-> file, dirs |-> dirs]
  /\ hist' = [hist EXCEPT !.launched = LaunchedOn(log)]
  /\ UNCHANGED <<listVars, pathVars, raceVars>>
  /\ UNCHANGED <<file, dirs, files>>

(***************************************************************************)
(* Spec: invocations of run(), one after another.                          *)
(***************************************************************************)
\* No overlapping invocations.
NoProcs == <<>>

\* No directory is being listed.
NoEntries == [readable |-> FALSE, list |-> <<>>]

Init ==
  /\ args = <<>>
  /\ cmd = NoCommand
  /\ pc = "idle"
  /\ config = InitialConfig
  /\ exitCode = 0
  /\ file \in InitFiles
  /\ \E t \in InitTrees : dirs = t[1] /\ files = t[2]
  /\ fr = NoFrame
  /\ log = <<>>
  /\ start = [file |-> file, dirs |-> dirs]
  /\ hist = NoHistory
  /\ entries = NoEntries /\ settled = <<>> /\ returned = <<>>
  /\ env = ProcessEnv /\ configPath = ConfigPath
  /\ procs = NoProcs /\ writes = <<>>

Next ==
  \/ \E a \in AppArgs : Run(a)
  \/ LoadConfig
  \/ CreateDefaultConfig
  \/ OpenLastProject
  \/ DispatchWorkspace
  \/ DispatchCreate
  \/ DispatchCd
  \/ EnsureWorkspaceExists
  \/ OpenWorkspace
  \/ CreateProjectInWorkspace
  \/ CreateProjectNonInteractive
  \/ CdToProject
  \/ OpenProject
  \/ UpdateLastProjectPath
  \/ ValidateIdeBinary
  \/ Spawn
  \/ Exited
  \/ DispatchConfig
  \/ GetConfigValue
  \/ SetConfigValue
  \/ OpenConfig
  \/ ConfigExited
  \/ ListAllWorkspaces
  \/ ListProjectsInWorkspaceWithFlags
  \/ ProcessExit

Spec == Init /\ [][Next]_vars

(***************************************************************************)
(* SpecParse: parseCommand applied to every bounded argument list.         *)
(***************************************************************************)
InitParse ==
  /\ \E h \in Tokens, t \in LaterLists : args \in {<<>>, <<h>> \o t}
  /\ cmd = NoCommand
  /\ pc = "args"
  /\ config = InitialConfig
  /\ exitCode = 0
  /\ file = FileMissing
  /\ dirs = {}
  /\ files = {}
  /\ fr = NoFrame
  /\ log = <<>>
  /\ start = [file |-> FileMissing, dirs |-> {}]
  /\ hist = NoHistory
  /\ entries = NoEntries /\ settled = <<>> /\ returned = <<>>
  /\ env = ProcessEnv /\ configPath = ConfigPath
  /\ procs = NoProcs /\ writes = <<>>

Parse ==
  /\ pc = "args"
  /\ cmd' = parseCommand(args)
  /\ pc' = "parsed"
  /\ UNCHANGED <<args, config, exitCode, file, dirs, files, fr, log, start, hist,
               listVars, pathVars, raceVars>>

NextParse == Parse

SpecParse == InitParse /\ [][NextParse]_vars

(***************************************************************************)
(* SpecOpen: openProject applied to every modelled path, with every        *)
(* combination of --dry-run and --ide, on every tree and config.           *)
(***************************************************************************)

\* The paths openProject is given: a project directory (where the tree has
\* one), a path nothing is at, and a path a regular file is at.
OpenPaths == {MyappDir, join(ClientDir, "newapp"), IdeFile}

\* The IDE commands tried: on the PATH, nowhere, a file under the home
\* directory, and a directory under the home directory.
OpenIdes == {"cursor", "nonexistent-binary", "~/bin/edit", "~/bin"}

OpenFlags ==
  { [NoFlags EXCEPT !.dryRun = d, !.ide = i] :
      d \in BOOLEAN, i \in {Undefined} \union OpenIdes }

InitOpen ==
  /\ pc = "openProject"
  /\ \E t \in InitTrees : dirs = t[1] /\ files = t[2]
  /\ \E c \in [workspace : {WorkspaceSetting}, ide : OpenIdes,
               lastProjectPath : {Undefined, MyappDir}] :
       config = c /\ file = FileOf(c)
  /\ \E p \in OpenPaths, f \in OpenFlags :
       fr = [NoFrame EXCEPT !.path = p, !.flags = f]
  /\ args = <<>>
  /\ cmd = NoCommand
  /\ exitCode = 0
  /\ log = <<>>
  /\ start = [file |-> file, dirs |-> dirs]
  /\ hist = NoHistory
  /\ entries = NoEntries /\ settled = <<>> /\ returned = <<>>
  /\ env = ProcessEnv /\ configPath = ConfigPath
  /\ procs = NoProcs /\ writes = <<>>

NextOpen ==
  \/ OpenProject
  \/ UpdateLastProjectPath
  \/ ValidateIdeBinary
  \/ Spawn
  \/ Exited

SpecOpen == InitOpen /\ [][NextOpen]_vars

(***************************************************************************)
(* SpecList: listWorkspaces and listProjectsInWorkspace applied to every   *)
(* bounded directory listing, the stats of listProjectsInWorkspace         *)
(* settling in every order.                                                *)
(***************************************************************************)
MaxEntries == 3
MaxMtime == 2

\* The UTF-16 code units of the modelled names, ascending.
CodeUnits == "-abcdefghijklmnopqrstuvwxyz"

\* a < b as Array.prototype.sort() compares strings without a comparator:
\* by code units, a proper prefix first.
RECURSIVE StringLess(_, _)
StringLess(a, b) ==
  IF b = "" THEN FALSE
  ELSE IF a = "" THEN TRUE
  ELSE IF SubSeq(a, 1, 1) = SubSeq(b, 1, 1)
    THEN StringLess(SubSeq(a, 2, Len(a)), SubSeq(b, 2, Len(b)))
  ELSE IndexOf(CodeUnits, SubSeq(a, 1, 1)) < IndexOf(CodeUnits, SubSeq(b, 1, 1))

\* The least member of a non-empty set of numbers.
Min(S) == CHOOSE x \in S : \A y \in S : x <= y

\* s with x put before place k.
InsertAt(s, k, x) == SubSeq(s, 1, k - 1) \o <<x>> \o SubSeq(s, k, Len(s))

\* workspaces.sort(): ascending, stable.
RECURSIVE SortNames(_)
SortNames(s) ==
  IF s = <<>> THEN <<>>
  ELSE LET sorted == SortNames(SubSeq(s, 1, Len(s) - 1))
           x == s[Len(s)]
           after == {j \in 1..Len(sorted) : StringLess(x, sorted[j])}
       IN InsertAt(sorted, IF after = {} THEN Len(sorted) + 1 ELSE Min(after), x)

\* projects.sort((a, b) => b.lastAccessed.getTime() - a.lastAccessed.getTime()):
\* the later modification time first, stable.
RECURSIVE SortProjects(_)
SortProjects(s) ==
  IF s = <<>> THEN <<>>
  ELSE LET sorted == SortProjects(SubSeq(s, 1, Len(s) - 1))
           x == s[Len(s)]
           after == {j \in 1..Len(sorted) :
                       sorted[j].lastAccessed < x.lastAccessed}
       IN InsertAt(sorted, IF after = {} THEN Len(sorted) + 1 ELSE Min(after), x)

\* The names tried as children of the workspace root.
RootEntryNames == {"client-work", "a-work", "web-worker-work", "notes", "-work"}

\* The name of the k-th child of a listed workspace.
ProjectEntryName(k) == "p" \o ToString(k)

\* A directory entry: its name, whether the Dirent is a directory, and
\* the modification time its stat gives (0: the stat throws).
Entry(name, isDirectory, mtime) ==
  [name |-> name, isDirectory |-> isDirectory, mtime |-> mtime]

\* The listings of a workspace root: distinct names, in any readdir order.
RootListings ==
  UNION { { [i \in 1..n |-> Entry(names[i], kinds[i], 1)] :
              names \in {f \in [1..n -> RootEntryNames] :
                           \A i, j \in 1..n : f[i] = f[j] => i = j},
              kinds \in [1..n -> BOOLEAN] } :
          n \in 0..MaxEntries }

\* The listings of a workspace directory, with every outcome of the stats.
ProjectListings ==
  UNION { { [i \in 1..n |-> Entry(ProjectEntryName(i), kinds[i], mtimes[i])] :
              kinds \in [1..n -> BOOLEAN],
              mtimes \in [1..n -> 0..MaxMtime] } :
          n \in 0..MaxEntries }

\* A promise of Promise.allSettled: pending, or fulfilled with a value.
Pending == [status |-> "pending"]
Fulfilled(value) == [status |-> "fulfilled", value |-> value]

\* What a stat promise resolves to: null, or a ProjectInfo.
Null == [null |-> TRUE]
ProjectInfo(name, path, lastAccessed) ==
  [null |-> FALSE, name |-> name, path |-> path, lastAccessed |-> lastAccessed]

\* entries.filter((entry) => entry.isDirectory())
IsDirectoryEntry(e) == e.isDirectory
DirectoryEntries == SelectSeq(entries.list, IsDirectoryEntry)

\* entry.isDirectory() && entry.name.endsWith("-work")
IsWorkspaceEntry(e) == e.isDirectory /\ EndsWith(e.name, "-work")

\* entry.name.replace("-work", "") for each kept entry, in readdir order.
WorkspaceNames(s) ==
  [i \in 1..Len(s) |-> ReplaceFirst(s[i].name, "-work", "")]

\* listWorkspaces
ListWorkspaces ==
  /\ pc = "listWorkspaces"
  /\ returned' =
       IF ~entries.readable THEN <<>>
       ELSE SortNames(WorkspaceNames(SelectSeq(entries.list, IsWorkspaceEntry)))
  /\ pc' = "returnedWorkspaces"
  /\ UNCHANGED <<args, cmd, config, exitCode, file, dirs, files, fr, log,
                 start, hist, pathVars, raceVars, entries, settled>>

\* listProjectsInWorkspace, to await Promise.allSettled(statPromises): one
\* promise per directory entry; a readdir that throws returns [].
Readdir ==
  /\ pc = "listProjectsInWorkspace"
  /\ IF ~entries.readable
       THEN /\ returned' = <<>>
            /\ pc' = "returnedProjects"
            /\ UNCHANGED settled
       ELSE /\ settled' = [i \in 1..Len(DirectoryEntries) |-> Pending]
            /\ pc' = "allSettled"
            /\ UNCHANGED returned
  /\ UNCHANGED <<args, cmd, config, exitCode, file, dirs, files, fr, log,
                 start, hist, pathVars, raceVars, entries>>

\* The stat of one entry completes, were a stat that throws to reject the
\* whole batch into the catch that returns [].
StatSettlesOrAborts(i) ==
  /\ pc = "allSettled"
  /\ i \in DOMAIN settled
  /\ settled[i] = Pending
  /\ LET entry == DirectoryEntries[i] IN
     IF entry.mtime = 0
       THEN /\ settled' = [settled EXCEPT ![i] = Fulfilled(Null)]
            /\ log' = Append(log, Ev("stat", entry.name, "failed"))
            /\ returned' = <<>>
            /\ pc' = "returnedProjects"
       ELSE /\ settled' = [settled EXCEPT ![i] =
                             Fulfilled(ProjectInfo(entry.name,
                                                   join(ClientDir, entry.name),
                                                   entry.mtime))]
            /\ log' = Append(log, Ev("stat", entry.name, "ok"))
            /\ UNCHANGED <<pc, returned>>
  /\ UNCHANGED <<args, cmd, config, exitCode, file, dirs, files, fr,
                 start, hist, pathVars, raceVars, entries>>

\* The stat of one entry completes: its promise is fulfilled with the
\* ProjectInfo, or with null when the stat threw.
StatSettles(i) ==
  /\ pc = "allSettled"
  /\ i \in DOMAIN settled
  /\ settled[i] = Pending
  /\ LET entry == DirectoryEntries[i] IN
     IF entry.mtime = 0
       THEN /\ settled' = [settled EXCEPT ![i] = Fulfilled(Null)]
            /\ log' = Append(log, Ev("stat", entry.name, "failed"))
       ELSE /\ settled' = [settled EXCEPT ![i] =
                             Fulfilled(ProjectInfo(entry.name,
                                                   join(ClientDir, entry.name),
                                                   entry.mtime))]
            /\ log' = Append(log, Ev("stat", entry.name, "ok"))
  /\ UNCHANGED <<args, cmd, pc, config, exitCode, file, dirs, files, fr,
                 start, hist, pathVars, raceVars, entries, returned>>

\* result.status === "fulfilled" && result.value
IsProject(result) == result.status = "fulfilled" /\ ~result.value.null

\* Every promise has settled: the values that are not null, in the order of
\* the promises, are sorted and returned.
AllSettled ==
  /\ pc = "allSettled"
  /\ \A i \in DOMAIN settled : settled[i] # Pending
  /\ LET results == SelectSeq(settled, IsProject)
         projects == [k \in 1..Len(results) |-> results[k].value]
     IN returned' = SortProjects(projects)
  /\ pc' = "returnedProjects"
  /\ UNCHANGED <<args, cmd, config, exitCode, file, dirs, files, fr, log,
                 start, hist, pathVars, raceVars, entries, settled>>

InitList ==
  /\ \/ /\ pc = "listWorkspaces"
        /\ \E r \in BOOLEAN, l \in RootListings :
             entries = [readable |-> r, list |-> l]
     \/ /\ pc = "listProjectsInWorkspace"
        /\ \E r \in BOOLEAN, l \in ProjectListings :
             entries = [readable |-> r, list |-> l]
  /\ settled = <<>>
  /\ returned = <<>>
  /\ args = <<>>
  /\ cmd = NoCommand
  /\ config = InitialConfig
  /\ exitCode = 0
  /\ file = FileMissing
  /\ dirs = {}
  /\ files = {}
  /\ fr = NoFrame
  /\ log = <<>>
  /\ start = [file |-> FileMissing, dirs |-> {}]
  /\ hist = NoHistory
  /\ env = ProcessEnv /\ configPath = ConfigPath
  /\ procs = NoProcs /\ writes = <<>>

NextList ==
  \/ ListWorkspaces
  \/ Readdir
  \/ \E i \in 1..MaxEntries : StatSettles(i)
  \/ AllSettled

SpecList == InitList /\ [][NextList]_vars

(***************************************************************************)
(* SpecPath: the constructor computes the config path under every          *)
(* modelled environment.                                                   *)
(***************************************************************************)
\* The values tried for WRK_CONFIG_HOME, XDG_CONFIG_HOME and HOME: unset,
\* set to the empty string, an absolute path, a relative path.
OverrideSettings == {Undefined, "", "/custom/config", "conf"}
XdgSettings == {Undefined, "", "/xdg", "xdg"}
HomeSettings == {Undefined, "", HomeDir, "/home/v"}

InitPath ==
  /\ \E w \in OverrideSettings, x \in XdgSettings, h \in HomeSettings :
       env = [WRK_CONFIG_HOME |-> w, XDG_CONFIG_HOME |-> x, HOME |-> h]
  /\ configPath = Undefined
  /\ pc = "new"
  /\ args = <<>>
  /\ cmd = NoCommand
  /\ config = InitialConfig
  /\ exitCode = 0
  /\ file = FileMissing
  /\ dirs = {}
  /\ files = {}
  /\ fr = NoFrame
  /\ log = <<>>
  /\ start = [file |-> FileMissing, dirs |-> {}]
  /\ hist = NoHistory
  /\ entries = NoEntries /\ settled = <<>> /\ returned = <<>>
  /\ procs = NoProcs /\ writes = <<>>

\* constructor(): this.configPath = getConfigPath(); this.config = {...}
Constructor ==
  /\ pc = "new"
  /\ configPath' = getConfigPath(env)
  /\ config' = InitialConfig
  /\ pc' = "constructed"
  /\ UNCHANGED <<args, cmd, exitCode, file, dirs, files, fr, log, start, hist,
                 listVars, env, raceVars>>

NextPath == Constructor

SpecPath == InitPath /\ [][NextPath]_vars

(***************************************************************************)
(* SpecRace: invocations that overlap.  Each has its own in-memory config  *)
(* and they share the config file; an invocation takes one step per        *)
(* awaited read or write of the file, and the steps of different           *)
(* invocations interleave in every order.                                  *)
(***************************************************************************)
MaxInvocations == 2

Invocations == 1..MaxInvocations

\* What an overlapping invocation does once its config is loaded:
\* `config --set key=value`, or openProject on an existing directory.
SetOp(key, value) == [kind |-> "set", key |-> key, value |-> value]
OpenOp(path) == [kind |-> "open", key |-> "lastProjectPath", value |-> path]

RaceOps ==
  {SetOp("ide", "vim"), SetOp("workspace", "~/w2"),
   OpenOp(MyappDir), OpenOp(join(ClientDir, "newapp"))}

\* A write of the config file that went through, by whom and with which
\* in-memory config.
Written(p, c) == [by |-> p, cfg |-> c]

\* this.config = await this.loadConfig(), in run() and again at the start of
\* setConfigValue: the file's content, or first-run setup (which saves) when
\* the file is missing or unreadable.
InitializeOf(p) ==
  /\ procs[p].pc \in {"initialize", "setConfigValue"}
  /\ LET next == IF procs[p].pc = "initialize" /\ procs[p].op.kind = "set"
                   THEN "setConfigValue" ELSE "save"
     IN IF file.kind = "ok"
          THEN /\ procs' = [procs EXCEPT ![p].config = file.cfg,
                                         ![p].pc = next]
               /\ UNCHANGED <<file, writes>>
          ELSE \E w \in SetupWorkspaceAnswers, i \in SetupIdeAnswers,
                  ok \in BOOLEAN :
                 /\ Trim(w) # "" /\ Trim(i) # ""
                 /\ LET c == [workspace |-> Trim(w), ide |-> Trim(i),
                              lastProjectPath |-> Undefined]
                    IN /\ procs' = [procs EXCEPT ![p].config = c,
                                                 ![p].pc = next]
                       /\ file' = SavedFile(c, ok)
                       /\ writes' = IF ok THEN Append(writes, Written(p, c))
                                    ELSE writes
  /\ UNCHANGED <<args, cmd, pc, config, exitCode, dirs, files, fr, log, start,
                 hist, listVars, pathVars>>

\* The in-memory config after the invocation's own change.
Changed(c, op) ==
  IF op.kind = "open" THEN [c EXCEPT !.lastProjectPath = op.value]
  ELSE IF op.key = "workspace" THEN [c EXCEPT !.workspace = Trim(op.value)]
  ELSE [c EXCEPT !.ide = Trim(op.value)]

\* The save, were it to patch the changed field into the file's content
\* instead of replacing the file.
SaveConfigOfPatchesField(p) ==
  /\ procs[p].pc = "save"
  /\ \E ok \in BOOLEAN :
       LET c == Changed(procs[p].config, procs[p].op) IN
       /\ procs' = [procs EXCEPT ![p].config = c, ![p].pc = "done"]
       /\ file' = IF ok /\ file.kind = "ok"
                    THEN FileOf(Changed(file.cfg, procs[p].op))
                    ELSE SavedFile(c, ok)
       /\ writes' = IF ok THEN Append(writes, Written(p, c)) ELSE writes
  /\ UNCHANGED <<args, cmd, pc, config, exitCode, dirs, files, fr, log, start,
                 hist, listVars, pathVars>>

\* setConfigValue from `this.config[key] = value.trim()` on, and
\* updateLastProjectPath: the invocation changes its in-memory config and
\* saveConfig writes the whole of it (a write that fails is swallowed).
SaveConfigOf(p) ==
  /\ procs[p].pc = "save"
  /\ \E ok \in BOOLEAN :
       LET c == Changed(procs[p].config, procs[p].op) IN
       /\ procs' = [procs EXCEPT ![p].config = c, ![p].pc = "done"]
       /\ file' = SavedFile(c, ok)
       /\ writes' = IF ok THEN Append(writes, Written(p, c)) ELSE writes
  /\ UNCHANGED <<args, cmd, pc, config, exitCode, dirs, files, fr, log, start,
                 hist, listVars, pathVars>>

InitRace ==
  /\ procs \in [Invocations ->
                  {[pc |-> "initialize", op |-> o, config |-> InitialConfig] :
                     o \in RaceOps}]
  /\ writes = <<>>
  /\ file \in InitFiles
  /\ start = [file |-> file, dirs |-> {}]
  /\ pc = "overlap"
  /\ args = <<>>
  /\ cmd = NoCommand
  /\ config = InitialConfig
  /\ exitCode = 0
  /\ dirs = {}
  /\ files = {}
  /\ fr = NoFrame
  /\ log = <<>>
  /\ hist = NoHistory
  /\ entries = NoEntries /\ settled = <<>> /\ returned = <<>>
  /\ env = ProcessEnv /\ configPath = ConfigPath

NextRace ==
  \E p \in Invocations :
    \/ InitializeOf(p)
    \/ SaveConfigOf(p)

SpecRace == InitRace /\ [][NextRace]_vars

(***************************************************************************)
(* Properties of parseCommand, checked under SpecParse.                    *)
(***************************************************************************)
GlobalFlagTokens == {"--help", "-h", "--version", "-v", "--config-path"}
Verbs == {"config", "list", "create", "cd"}
ValueFlags == {"--project", "-p", "--ide", "-i"}
BoolFlags == {"--json", "--dry-run"}

GlobalType(t) ==
  IF t \in {"--help", "-h"} THEN "help"
  ELSE IF t \in {"--version", "-v"} THEN "version"
  ELSE "config-path"

\* Token i of the list is the value of the value-bearing flag before it.
RECURSIVE IsValueAt(_, _)
IsValueAt(a, i) ==
  i >= 3 /\ a[i - 1] \in ValueFlags /\ ~IsValueAt(a, i - 1)

\* The list ends with a value-bearing flag that has no value.
DanglingFlag(a) ==
  Len(a) >= 2 /\ a[Len(a)] \in ValueFlags /\ ~IsValueAt(a, Len(a))

\* The places of the positional tokens: after the command, neither a flag
\* nor a flag's value.
Positionals(a) ==
  {i \in 2..Len(a) : ~IsValueAt(a, i) /\ a[i] \notin ValueFlags \union BoolFlags}

\* C1: the type of the returned command follows from the first token alone:
\* no token gives `last`; a global flag gives its command whatever follows,
\* without throwing; `config`, `list`, `create` and `cd` never give
\* `workspace`; any other first token gives `workspace` named by that token,
\* whatever positional tokens follow.
C1_TypeByFirstToken ==
  pc = "parsed" =>
    IF args = <<>> THEN cmd.type = "last"
    ELSE IF args[1] \in GlobalFlagTokens THEN cmd.type = GlobalType(args[1])
    ELSE IF args[1] \in Verbs THEN cmd.type \in {args[1], "throw"}
    ELSE /\ cmd.type \in {"workspace", "throw"}
         /\ cmd.type = "workspace" => cmd.workspaceName = args[1]

\* C1 witness: a global flag followed by a dangling --project gives its
\* command.
C1_Witness ==
  /\ pc = "parsed"
  /\ args = <<"--help", "--project">>
  /\ cmd.type = "help"

\* C2: past the global flags, parsing throws a usage error when a
\* value-bearing flag ends the list, when `create` got no positional token
\* and when `cd` got fewer than two.
C2_UsageErrors ==
  (/\ pc = "parsed"
   /\ args # <<>>
   /\ args[1] \notin GlobalFlagTokens
   /\ \/ DanglingFlag(args)
      \/ args[1] = "create" /\ Positionals(args) = {}
      \/ args[1] = "cd" /\ Cardinality(Positionals(args)) < 2)
  => (cmd.type = "throw" /\ cmd.error # Undefined)

\* C2 witness: `cd` with one positional token and no dangling flag throws.
C2_Witness ==
  /\ pc = "parsed"
  /\ Len(args) >= 2
  /\ args[1] = "cd"
  /\ Cardinality(Positionals(args)) = 1
  /\ ~DanglingFlag(args)
  /\ cmd.type = "throw"

(***************************************************************************)
(* Properties of an invocation, checked under Spec.                        *)
(***************************************************************************)

\* What the invocation has done so far.
Logged(e) == \E i \in 1..Len(log) : log[i] = e
Did(ev) == \E i \in 1..Len(log) : log[i].ev = ev
Places(ev) == {i \in 1..Len(log) : log[i].ev = ev}

\* The invocation runs a command that may open a project (not `config`,
\* whose editor opens the config file).
OpensProject == pc # "idle" /\ cmd.type \in {"last", "workspace", "create"}

\* lastProjectPath as the config file holds it.
FileLastProjectPath(f) == f.cfg.lastProjectPath

\* C3: in a non-dry-run open of an existing project directory the config
\* is saved with lastProjectPath set to the project path before the IDE
\* command is resolved or launched; when that command (the --ide override
\* the open was given, else config.ide) is not found, the invocation
\* reports an error naming it, ends with exit code 1, launches nothing and
\* lastProjectPath is already the path.
C3_SaveBeforeLaunch ==
  OpensProject =>
    /\ \A i \in Places("resolve") \union Places("spawn") :
         /\ \E j \in 1..(i - 1), k \in 1..(i - 1) :
              /\ j < k
              /\ log[j] = Ev("open", fr.path, "")
              /\ log[k].ev = "save" /\ log[k].y = fr.path
              /\ log[k].x = "ok" => /\ file.kind = "ok"
                                    /\ FileLastProjectPath(file) = fr.path
         /\ config.lastProjectPath = fr.path
         /\ ~fr.flags.dryRun
    /\ \A i \in Places("resolve") :
         (pc = "done" /\ log[i].y = NotFound) =>
           /\ log[i].x = IdeToUse(fr.flags, config)
           /\ Logged(Err("IDE command not found", log[i].x))
           /\ exitCode = 1
           /\ ~Did("spawn")
           /\ config.lastProjectPath = fr.path

\* C3 witness: `--ide nonexistent-binary` on an existing project ended with
\* exit code 1 after the path was written to the config file.
C3_Witness ==
  /\ pc = "done"
  /\ OpensProject
  /\ cmd.flags.ide = "nonexistent-binary"
  /\ Logged(Ev("resolve", "nonexistent-binary", NotFound))
  /\ Logged(Ev("save", "ok", MyappDir))
  /\ FileLastProjectPath(file) = MyappDir
  /\ FileLastProjectPath(start.file) = Undefined
  /\ exitCode = 1

\* C4: the editor is started with the resolved executable and the project
\* path as its only argument, and the invocation's exit code is the
\* editor's: 0 for 0, the editor's own nonzero code otherwise.
C4_LaunchAndExitCode ==
  OpensProject =>
    /\ \A i \in Places("spawn") :
         /\ log[i - 1].ev = "resolve"
         /\ log[i].x = log[i - 1].y
         /\ log[i].x = validateIdeBinary(IdeToUse(fr.flags, config))
         /\ log[i].y = fr.path
         /\ Logged(Ev("open", log[i].y, ""))
    /\ \A i \in Places("exited") :
         /\ Did("spawn")
         /\ pc = "done"
         /\ ToString(exitCode) = log[i].y

\* C4 witness: the editor was launched on the project and exited with 3,
\* and so did the invocation.
C4_Witness ==
  /\ pc = "done"
  /\ OpensProject
  /\ Logged(Ev("spawn", "/usr/bin/cursor", MyappDir))
  /\ Logged(Ev("exited", "/usr/bin/cursor", "3"))
  /\ exitCode = 3

\* C5: openProject with flags.dryRun on an existing directory only prints
\* the path and the IDE command (the --ide override if given, else
\* config.ide): nothing is saved, lastProjectPath keeps its value, the IDE
\* command is neither resolved nor launched, and the exit code is 0 even
\* when the command does not exist.
C5_DryRunOpen ==
  [][(pc = "openProject" /\ fr.flags.dryRun /\ IsDirectory(fr.path)) =>
       /\ pc' = "done"
       /\ exitCode' = 0
       /\ UNCHANGED <<config, file, dirs, files>>
       /\ log' = log \o
            <<Ev("open", fr.path, ""),
              Out("Would open project", fr.path),
              Out("Would use IDE",
                  IF Truthy(fr.flags.ide) THEN fr.flags.ide ELSE config.ide)>>
    ]_vars

\* C5 witness: a dry-run open of an existing project with an IDE command
\* that does not exist printed it and ended with exit code 0.
C5_Witness ==
  /\ pc = "done"
  /\ fr.flags.dryRun
  /\ IsDirectory(fr.path)
  /\ log[Len(log)] = Out("Would use IDE", "nonexistent-binary")
  /\ validateIdeBinary("nonexistent-binary") = NotFound
  /\ ~Did("save") /\ ~Did("resolve") /\ ~Did("spawn")
  /\ exitCode = 0

\* The project path of the invocation's command, for the names it gives.
TargetPath(projectName) ==
  join(getWorkspacePath(config, cmd.workspaceName), projectName)

\* Something was at the path when the invocation started.
ExistedAtStart(path) == path \in start.dirs \/ path \in files

\* The directories the invocation has created directly under its workspace
\* directory: project directories.
CreatedProjects ==
  {d \in dirs \ start.dirs :
     dirname(d) = getWorkspacePath(config, cmd.workspaceName)}

\* C6: in an invocation whose parsed flags have dryRun set, whatever is
\* answered at the prompts, no project directory is created,
\* lastProjectPath is not changed and the editor is not launched.
C6_DryRunInvocation ==
  (/\ pc # "idle"
   /\ cmd.type \in {"workspace", "create", "cd"}
   /\ cmd.flags.dryRun)
  => /\ CreatedProjects = {}
     /\ FileLastProjectPath(file) = FileLastProjectPath(start.file)
     /\ ~Did("spawn")

\* C7: `create <workspace> <project> --dry-run` with nothing at the project
\* path prints a "would create" message and changes nothing on disk: no
\* project directory, no workspace directory, and no editor is launched.
C7_DryRunCreate ==
  (/\ pc = "done"
   /\ cmd.type = "create"
   /\ Truthy(cmd.projectName)
   /\ cmd.flags.dryRun
   /\ ~ExistedAtStart(TargetPath(cmd.projectName))
   /\ ~Logged(Ev("mkdir", getWorkspacePath(config, cmd.workspaceName),
                 "failed")))
  => /\ Logged(Out("Would create project", TargetPath(cmd.projectName)))
     /\ dirs = start.dirs
     /\ ~Did("spawn")

\* C8: once the user declines to create a missing workspace directory the
\* invocation ends with exit code 0: nothing is asked, created, reported as
\* an error or launched after the answer.
C8_DeclineEnds ==
  \A i \in Places("prompt") :
    (pc = "done" /\ log[i] = Prompt("Create workspace?", "no")) =>
      /\ exitCode = 0
      /\ dirs = start.dirs
      /\ \A k \in (i + 1)..Len(log) :
           log[k].ev \notin {"prompt", "mkdir", "stderr", "save", "spawn"}

\* `create` with both names.
CreateBoth ==
  pc # "idle" /\ cmd.type = "create" /\ Truthy(cmd.projectName)

\* C9: `create <workspace> <project>` with something already at the project
\* path ends with exit code 1, creates nothing, leaves lastProjectPath
\* alone and launches nothing, with or without --dry-run; with nothing
\* there and dry-run off, the project directory is created (unless mkdir
\* fails) and openProject then runs on it with the invocation's flags.
C9_CreateNonInteractive ==
  CreateBoth =>
    LET projectPath == TargetPath(cmd.projectName) IN
    /\ (pc = "done" /\ ExistedAtStart(projectPath)) =>
         /\ exitCode = 1
         /\ Logged(Err("already exists", cmd.projectName))
         /\ dirs = start.dirs
         /\ FileLastProjectPath(file) = FileLastProjectPath(start.file)
         /\ ~Did("open") /\ ~Did("spawn")
    /\ (~ExistedAtStart(projectPath) /\ ~cmd.flags.dryRun) =>
         /\ \A i \in Places("open") :
              /\ log[i].x = projectPath
              /\ \E j \in 1..(i - 1) : log[j] = Ev("mkdir", projectPath, "ok")
              /\ IsDirectory(projectPath)
              /\ fr.flags = cmd.flags
         /\ (pc = "done" /\ \A k \in Places("mkdir") : log[k].y = "ok") =>
              /\ Logged(Ev("mkdir", projectPath, "ok"))
              /\ Did("open")

\* C9 witness: `create client myapp --dry-run` with myapp already there
\* ended with exit code 1.
C9_Witness ==
  /\ pc = "done"
  /\ CreateBoth
  /\ cmd.flags.dryRun
  /\ TargetPath(cmd.projectName) = MyappDir
  /\ MyappDir \in start.dirs
  /\ exitCode = 1

\* The workspace command with --project.
WithProject ==
  pc # "idle" /\ cmd.type = "workspace" /\ Truthy(cmd.flags.project)

\* C10: with --project P the workspace command opens only the listed
\* project named exactly P; when none is (an empty workspace included) it
\* ends with exit code 1 without a selection menu or a prompt to create a
\* project, without changing lastProjectPath and without launching.
C10_ProjectByExactName ==
  WithProject =>
    /\ \A i \in Places("open") :
         /\ log[i].x = TargetPath(cmd.flags.project)
         /\ IsDirectory(log[i].x)
    /\ \A i \in Places("prompt") :
         log[i].x \notin {"Select a project:", "Create a new project?",
                          "Enter project name"}
    /\ ~IsDirectory(TargetPath(cmd.flags.project)) => ~Did("open")
    /\ (pc = "done" /\ ~Did("open")) =>
         /\ exitCode = 1
         /\ FileLastProjectPath(file) = FileLastProjectPath(start.file)
         /\ config.lastProjectPath = FileLastProjectPath(start.file)
         /\ ~Did("spawn")

\* C10 witness: `client --project other` in a workspace whose only project
\* is myapp ended with exit code 1.
C10_Witness ==
  /\ pc = "done"
  /\ WithProject
  /\ cmd.flags.project = "other"
  /\ IsDirectory(MyappDir)
  /\ Logged(Err("Project not found in workspace", "other"))
  /\ exitCode = 1

\* C11 as first stated: `cd` never launches the editor, never changes
\* lastProjectPath and creates no directory at all; on an existing project
\* directory it prints exactly the path and ends with exit code 0, and on
\* a missing one or a non-directory it ends with exit code 1.
C11_CdCreatesNothing ==
  (pc # "idle" /\ cmd.type = "cd") =>
    /\ ~Did("open") /\ ~Did("spawn")
    /\ FileLastProjectPath(file) = FileLastProjectPath(start.file)
    /\ dirs = start.dirs
    /\ pc = "done" =>
         IF IsDirectory(TargetPath(cmd.projectName))
           THEN /\ exitCode = 0
                /\ ~cmd.flags.dryRun =>
                     log[Len(log)] = Out("path", TargetPath(cmd.projectName))
           ELSE exitCode = 1

\* C11: `cd` never launches the editor, never changes lastProjectPath and
\* creates no project directory: the only directory it creates is a missing
\* workspace directory the user agreed to create.  On an existing project
\* directory it prints exactly the path (after "Would cd to" under
\* --dry-run) and ends with exit code 0; on a missing one or a
\* non-directory it ends with exit code 1.
C11_CdSideEffects ==
  (pc # "idle" /\ cmd.type = "cd") =>
    LET workspacePath == getWorkspacePath(config, cmd.workspaceName)
        projectPath == TargetPath(cmd.projectName)
    IN
    /\ ~Did("open") /\ ~Did("spawn")
    /\ FileLastProjectPath(file) = FileLastProjectPath(start.file)
    /\ CreatedProjects = {}
    /\ dirs # start.dirs =>
         /\ dirs = start.dirs \union Ancestors(workspacePath)
                              \union {workspacePath}
         /\ workspacePath \notin start.dirs
         /\ Logged(Prompt("Create workspace?", "yes"))
    /\ pc = "done" =>
         IF IsDirectory(projectPath)
           THEN /\ exitCode = 0
                /\ log[Len(log)] =
                     Out(IF cmd.flags.dryRun THEN "Would cd to" ELSE "path",
                         projectPath)
                /\ \A i \in Places("stdout") :
                     log[i].y = projectPath => i = Len(log)
           ELSE exitCode = 1

\* C11 witness: `cd` on a missing workspace the user agreed to create made
\* the workspace directory and ended with exit code 1.
C11_Witness ==
  /\ pc = "done"
  /\ cmd.type = "cd"
  /\ Logged(Prompt("Create workspace?", "yes"))
  /\ ClientDir \in dirs \ start.dirs
  /\ ~IsDirectory(TargetPath(cmd.projectName))
  /\ exitCode = 1

\* lastProjectPath as the invocation loads it: none when the file is
\* missing or unreadable and first-run setup writes a new config.
LoadedLastProjectPath ==
  IF start.file.kind = "ok" THEN FileLastProjectPath(start.file) ELSE Undefined

Statted ==
  {i \in 1..Len(entries.list) :
     entries.list[i].isDirectory /\ entries.list[i].mtime > 0}

\* The place in the listing of the entry with this name.
PlaceOf(name) == CHOOSE i \in 1..Len(entries.list) : entries.list[i].name = name

\* C13: whatever the entries, the outcomes of the stats and the order in
\* which the stats complete, listProjectsInWorkspace returns one entry per
\* child directory whose stat succeeded and none for a failed one, the
\* later modification time first; the result is fixed by the listing alone
\* (equal times keep the readdir order), and it is empty when the
\* directory cannot be read.
C13_ListProjects ==
  pc = "returnedProjects" =>
    IF ~entries.readable THEN returned = <<>>
    ELSE /\ Len(returned) = Cardinality(Statted)
         /\ \A i \in Statted : \E k \in 1..Len(returned) :
              returned[k] = ProjectInfo(entries.list[i].name,
                                        join(ClientDir, entries.list[i].name),
                                        entries.list[i].mtime)
         /\ \A k \in 1..(Len(returned) - 1) :
              /\ returned[k].lastAccessed >= returned[k + 1].lastAccessed
              /\ returned[k].lastAccessed = returned[k + 1].lastAccessed =>
                   PlaceOf(returned[k].name) < PlaceOf(returned[k + 1].name)
         /\ Len(log) = Len(DirectoryEntries)

\* C13 witness: three stats completed last entry first, one of them failed,
\* and the two projects came back newest first, against the readdir order.
C13_Witness ==
  /\ pc = "returnedProjects"
  /\ Len(log) = 3
  /\ log[1].x = ProjectEntryName(3) /\ log[3].x = ProjectEntryName(1)
  /\ \E k \in 1..3 : log[k].y = "failed"
  /\ Len(returned) = 2
  /\ returned[1].lastAccessed > returned[2].lastAccessed
  /\ PlaceOf(returned[1].name) > PlaceOf(returned[2].name)

\* name without its last n characters
DropLast(name, n) == SubSeq(name, 1, Len(name) - n)

\* The names listWorkspaces is to return: each child directory whose name
\* ends with "-work", without that suffix.
SuffixStripped ==
  {DropLast(e.name, Len("-work")) :
     e \in {entries.list[i] : i \in {j \in 1..Len(entries.list) :
                                       IsWorkspaceEntry(entries.list[j])}}}

\* C14: listWorkspaces returns, in ascending order, exactly the names of
\* the child directories that end with "-work", each without that trailing
\* suffix, and the empty sequence when the root cannot be read.
C14_ListWorkspaces ==
  pc = "returnedWorkspaces" =>
    IF ~entries.readable THEN returned = <<>>
    ELSE /\ {returned[k] : k \in 1..Len(returned)} = SuffixStripped
         /\ Len(returned) = Cardinality(SuffixStripped)
         /\ \A k \in 1..(Len(returned) - 1) :
              StringLess(returned[k], returned[k + 1])

(***************************************************************************)
(* Properties of the config commands, checked under Spec.                  *)
(***************************************************************************)

\* C15: `config --set S` with no "=" in S, an empty key, a key other than
\* workspace and ide, or a value that is empty once trimmed ends with exit
\* code 1 and changes neither the config in memory nor the config file;
\* otherwise the key is the text before the first "=", the value the
\* trimmed text after it (later "=" kept), only that field changes and the
\* whole config is written (unless the write fails, which is reported).
C15_SetConfigValue ==
  [][pc = "setConfigValue" =>
       LET S == cmd.flags.set
           i == IndexOf(S, "=")
           key == SubSeq(S, 1, i - 1)
           value == Trim(SubSeq(S, i + 1, Len(S)))
       IN /\ pc' = "done"
          /\ IF i = 0 \/ key = "" \/ key \notin {"workspace", "ide"} \/ value = ""
               THEN /\ exitCode' = 1
                    /\ UNCHANGED <<config, file>>
                    /\ log'[Len(log')].ev = "stderr"
               ELSE /\ exitCode' = 0
                    /\ config' = IF key = "workspace"
                                   THEN [config EXCEPT !.workspace = value]
                                   ELSE [config EXCEPT !.ide = value]
                    /\ \/ file' = FileOf(config')
                       \/ /\ file' = file
                          /\ \E k \in 1..Len(log') :
                               log'[k] = Err("Error saving config", "")
    ]_vars

\* C15 witness: `config --set ide=vim=2` stored "vim=2" as the ide and
\* wrote the config, leaving the other fields as they were.
C15_Witness ==
  /\ pc = "done"
  /\ cmd.type = "config"
  /\ cmd.flags.set = "ide=vim=2"
  /\ start.file.kind = "ok"
  /\ file = FileOf([start.file.cfg EXCEPT !.ide = "vim=2"])
  /\ config = file.cfg
  /\ exitCode = 0

\* The fields of a config.
ConfigFields == {"workspace", "ide", "lastProjectPath"}

\* C16: `config --get K` prints the value and ends with exit code 0 when K
\* is one of the config fields workspace, ide and lastProjectPath; for
\* every other K it reports an error and ends with exit code 1; the config
\* is not modified either way.
C16_GetConfigValue ==
  (pc = "done" /\ cmd.type = "config" /\ Truthy(cmd.flags.get)) =>
    /\ IF cmd.flags.get \in ConfigFields
         THEN /\ exitCode = 0
              /\ log[Len(log)].ev = "stdout"
              /\ log[Len(log)].x = "value"
         ELSE /\ exitCode = 1
              /\ log[Len(log)].ev = "stderr"
    /\ start.file.kind = "ok" => (file = start.file /\ config = file.cfg)

\* C17: for K in {workspace, ide}, once `config --set K=V` has written the
\* trimmed V, a later `config --get K` prints exactly that value, also
\* when invocations that open projects ran in between.
C17_SetThenGet ==
  \A K \in {"workspace", "ide"} :
    /\ (/\ pc = "done" /\ cmd.type = "config"
        /\ StartsWith(cmd.flags.set, K \o "=")
        /\ Len(log) >= 2
        /\ log[Len(log) - 1] = Ev("save", "ok", config.lastProjectPath)) =>
         /\ hist.set[K] =
              Trim(SubSeq(cmd.flags.set, Len(K) + 2, Len(cmd.flags.set)))
         /\ hist.set[K] # ""
    /\ (/\ pc = "done" /\ cmd.type = "config"
        /\ cmd.flags.get = K
        /\ hist.set[K] # Undefined) =>
         /\ log[Len(log)] = Out("value", hist.set[K])
         /\ exitCode = 0

\* C17 witness: after `config --set ide=vim` and then an opened project,
\* `config --get ide` printed vim.
C17_Witness ==
  /\ pc = "done"
  /\ cmd.type = "config"
  /\ cmd.flags.get = "ide"
  /\ hist.set.ide = "vim"
  /\ hist.opened
  /\ log[Len(log)] = Out("value", "vim")

\* The invocation has looked for the config file: it read it, or found it
\* missing or unreadable and ran first-run setup.
LoadedConfig == Did("read") \/ Logged(Out("setup", ""))

\* C18: the config file is read only once the arguments have parsed to a
\* command other than help, version and config-path: those three, and
\* every invocation whose arguments fail to parse, never read the config
\* file, never run first-run setup and never write the config; the three
\* end with exit code 0 and a parse failure with exit code 1.
C18_NoConfigLoad ==
  pc # "idle" =>
    /\ cmd.type \in {"help", "version", "config-path", "throw"} =>
         /\ pc = "done"
         /\ ~LoadedConfig
         /\ ~Did("prompt") /\ ~Did("save")
         /\ file = start.file
         /\ config = InitialConfig
         /\ exitCode = IF cmd.type = "throw" THEN 1 ELSE 0
    /\ LoadedConfig =>
         cmd.type \in {"last", "config", "list", "create", "cd", "workspace"}

\* C18 witness: `--config-path` without a config file ended with exit code
\* 0 and there is still no config file.
C18_Witness ==
  /\ pc = "done"
  /\ cmd.type = "config-path"
  /\ file = FileMissing
  /\ log = <<Out("config-path", "")>>
  /\ exitCode = 0

(***************************************************************************)
(* Properties of openProject, checked under SpecOpen.                      *)
(***************************************************************************)

\* C19: openProject on a path that does not exist or is not a directory
\* ends with exit code 1, leaves the config file and lastProjectPath as
\* they were, resolves no IDE command and launches nothing, with or
\* without dry-run.
C19_OpenMissing ==
  fr.path \notin start.dirs =>
    /\ pc \in {"openProject", "done"}
    /\ pc = "done" =>
         /\ exitCode = 1
         /\ log = <<Ev("open", fr.path, ""),
                    Err("Project not found at", fr.path)>>
         /\ file = start.file
         /\ config = start.file.cfg
         /\ dirs = start.dirs

\* C19 witness: a dry-run open of a path that is a regular file ended with
\* exit code 1.
C19_Witness ==
  /\ pc = "done"
  /\ fr.flags.dryRun
  /\ fr.path \in files
  /\ exitCode = 1

\* The command with a leading "~" replaced by the home directory.
HomeExpanded(command) ==
  IF Len(command) >= 1 /\ SubSeq(command, 1, 1) = "~"
    THEN HomeDir \o SubSeq(command, 2, Len(command))
    ELSE command

\* C20: resolving the IDE command gives the location the command lookup
\* finds when it finds one, else the home-expanded command when something
\* exists at that path, and fails exactly when neither does; the error
\* then names the command and suggests `config --set`.
C20_ResolveIde ==
  \A i \in Places("resolve") :
    LET command == log[i].x
        location == log[i].y
        found == command \in DOMAIN PathTable
        exists == HomeExpanded(command) \in dirs \union files
    IN /\ command = IF Truthy(fr.flags.ide) THEN fr.flags.ide ELSE config.ide
       /\ found => location = PathTable[command]
       /\ (~found /\ exists) => location = HomeExpanded(command)
       /\ location = NotFound <=> (~found /\ ~exists)
       /\ location = NotFound =>
            /\ pc = "done" /\ exitCode = 1
            /\ log[Len(log)] = Err("IDE command not found", command)
            /\ IndexOf(IdeNotFoundMessage(command),
                       "'" \o command \o "'") > 0
            /\ IndexOf(IdeNotFoundMessage(command), "config --set") > 0

\* C20 witness: a command that is not on the PATH but names a file under
\* the home directory resolved to that file, which was launched.
C20_Witness ==
  /\ Logged(Ev("resolve", "~/bin/edit", IdeFile))
  /\ Logged(Ev("spawn", IdeFile, MyappDir))
  /\ Which("~/bin/edit") = NotFound

(***************************************************************************)
(* Properties of parseCommand's positionals, config sub-flags and errors,  *)
(* checked under SpecParse.                                                *)
(***************************************************************************)

Max(S) == CHOOSE x \in S : \A y \in S : y <= x

\* The place of the k-th smallest member of a set of places, 0 when the set
\* has fewer.
RECURSIVE NthPlace(_, _)
NthPlace(S, k) ==
  IF S = {} THEN 0
  ELSE IF k = 1 THEN Min(S)
  ELSE NthPlace(S \ {Min(S)}, k - 1)

\* The k-th positional token of the list, Undefined when there are fewer.
PositionalToken(a, k) ==
  LET p == NthPlace(Positionals(a), k) IN IF p = 0 THEN Undefined ELSE a[p]

\* The token that follows the last occurrence, in flag position, of one of
\* the given flags; Undefined when there is none.
FlagValue(a, names) ==
  LET places == {i \in 3..Len(a) : IsValueAt(a, i) /\ a[i - 1] \in names}
  IN IF places = {} THEN Undefined ELSE a[Max(places)]

\* C21: for `list`, `create` and `cd`, the returned workspaceName is the
\* first token after the command that is neither a recognised flag nor a
\* flag's value, projectName (which `create` and `cd` carry) is the second
\* such token and later ones are ignored; the token after --project/-p or
\* --ide/-i is that flag's value verbatim.
C21_Positionals ==
  (/\ pc = "parsed"
   /\ args # <<>>
   /\ args[1] \in {"list", "create", "cd"}
   /\ cmd.type # "throw")
  => /\ cmd.workspaceName = PositionalToken(args, 1)
     /\ args[1] # "list" => cmd.projectName = PositionalToken(args, 2)
     /\ cmd.flags.project = FlagValue(args, {"--project", "-p"})
     /\ cmd.flags.ide = FlagValue(args, {"--ide", "-i"})

\* C22: a command returned for `config` has at most one of get, set and edit
\* set, chosen by the second token alone: `--get`/`--set` give the third
\* token verbatim, `--edit` gives edit, a sub-flag in a later place is not
\* recognised; `--get` or `--set` as the last token is a usage error.
C22_ConfigSubFlag ==
  (pc = "parsed" /\ args # <<>> /\ args[1] = "config")
  => /\ (Len(args) = 2 /\ args[2] \in {"--get", "--set"})
          => cmd.type = "throw"
     /\ cmd.type # "throw"
          => /\ cmd.type = "config"
             /\ Cardinality({k \in {"get", "set"} : cmd.flags[k] # Undefined})
                  + (IF cmd.flags.edit THEN 1 ELSE 0) <= 1
             /\ IF Len(args) >= 2 /\ args[2] = "--get"
                  THEN /\ Len(args) >= 3
                       /\ cmd.flags.get = args[3]
                       /\ cmd.flags.set = Undefined
                       /\ ~cmd.flags.edit
                ELSE IF Len(args) >= 2 /\ args[2] = "--set"
                  THEN /\ Len(args) >= 3
                       /\ cmd.flags.set = args[3]
                       /\ cmd.flags.get = Undefined
                       /\ ~cmd.flags.edit
                ELSE IF Len(args) >= 2 /\ args[2] = "--edit"
                  THEN /\ cmd.flags.edit
                       /\ cmd.flags.get = Undefined
                       /\ cmd.flags.set = Undefined
                ELSE /\ ~cmd.flags.edit
                     /\ cmd.flags.get = Undefined
                     /\ cmd.flags.set = Undefined

\* C22 witness: `config --get --edit` reads the key named --edit and does not
\* set edit.
C22_Witness ==
  /\ pc = "parsed"
  /\ args = <<"config", "--get", "--edit">>
  /\ cmd.type = "config"
  /\ cmd.flags.get = "--edit"
  /\ ~cmd.flags.edit

\* The positional tokens that name something: the non-empty ones.
NonEmptyPositionals(a) == {i \in Positionals(a) : a[i] # ""}

\* The enumerated usage errors of a list that does not start with a global
\* flag.
UsageError(a) ==
  \/ DanglingFlag(a)
  \/ /\ a[1] = "config"
     /\ Len(a) >= 2
     /\ a[2] \in {"--get", "--set"}
     /\ (Len(a) = 2 \/ a[3] = "")
  \/ a[1] = "create" /\ NonEmptyPositionals(a) = {}
  \/ a[1] = "cd" /\ Cardinality(NonEmptyPositionals(a)) < 2

\* C23: parseCommand throws exactly on the enumerated usage errors (a
\* value-bearing flag as the last token, `config --get`/`--set` without a
\* value, `create` without a workspace, `cd` without a workspace or a
\* project); every other list, unknown dash-prefixed tokens included, gives
\* a Command of one of the nine types.
C23_Total ==
  pc = "parsed"
  => /\ cmd.type = "throw"
          <=> (/\ args # <<>>
               /\ args[1] \notin GlobalFlagTokens
               /\ UsageError(args))
     /\ cmd.type # "throw"
          => /\ cmd.error = Undefined
             /\ cmd.type \in {"help", "version", "config-path", "config",
                              "list", "create", "cd", "workspace", "last"}

\* C23 witness: `create` with an unknown dash-prefixed token returns a
\* Command.
C23_Witness ==
  /\ pc = "parsed"
  /\ Len(args) >= 2
  /\ args[1] = "create"
  /\ \E i \in 2..Len(args) : args[i] = "--verbose"
  /\ cmd.type = "create"

(***************************************************************************)
(* The config path, checked under SpecPath.                                *)
(***************************************************************************)

\* An environment variable counts as set when it has a non-empty value.
IsSet(v) == v # Undefined /\ v # ""

\* The absolute form of a path: a relative one is taken from the current
\* directory.
Absolute(p) == IF SubSeq(p, 1, 1) = "/" THEN p ELSE Cwd \o "/" \o p

\* The home directory: HOME when set, else the account's home directory.
HomeOf(e) == IF IsSet(e.HOME) THEN e.HOME ELSE HomeDir

\* C24: the config path is <WRK_CONFIG_HOME>/wrk/config.json when
\* WRK_CONFIG_HOME is set (also when XDG_CONFIG_HOME is set too), else
\* <XDG_CONFIG_HOME>/wrk/config.json when that is set, else
\* <home>/.config/wrk/config.json.
C24_ConfigPath ==
  pc = "constructed"
  => configPath =
       IF IsSet(env.WRK_CONFIG_HOME)
         THEN Absolute(env.WRK_CONFIG_HOME \o "/wrk/config.json")
       ELSE IF IsSet(env.XDG_CONFIG_HOME)
         THEN Absolute(env.XDG_CONFIG_HOME \o "/wrk/config.json")
       ELSE HomeOf(env) \o "/.config/wrk/config.json"

\* C24 witness: both variables are set and the path is the one under
\* WRK_CONFIG_HOME.
C24_Witness ==
  /\ pc = "constructed"
  /\ env.WRK_CONFIG_HOME = "/custom/config"
  /\ env.XDG_CONFIG_HOME = "/xdg"
  /\ configPath = "/custom/config/wrk/config.json"

(***************************************************************************)
(* Loading and saving the config, checked under Spec.                      *)
(***************************************************************************)

\* The command of the invocation is one that run() loads the config for.
NeedsConfig ==
  cmd.type \in {"last", "config", "list", "create", "cd", "workspace"}

\* C25: an invocation that finds a config file it cannot read or parse does
\* not end there: it reports the load error, runs first-run setup, its
\* in-memory config becomes the trimmed answers with lastProjectPath unset,
\* the file is overwritten with that config (it stays as it was when the
\* write fails), and the command is dispatched with exit code 0 so far.
C25_CorruptConfig ==
  (start.file.kind = "corrupt" /\ NeedsConfig /\ pc \notin {"idle", "initialize"})
  => /\ Len(log) >= 7
     /\ log[1] = Ev("read", "config", "failed")
     /\ log[2] = Err("Error loading config", "")
     /\ log[3] = Out("setup", "")
     /\ log[4].ev = "prompt" /\ log[4].x = "workspace"
     /\ log[5].ev = "prompt" /\ log[5].x = "ide"
     /\ log[6].ev = "save"
     /\ LET c == [workspace |-> Trim(log[4].y), ide |-> Trim(log[5].y),
                  lastProjectPath |-> Undefined]
        IN /\ c.workspace # "" /\ c.ide # ""
           /\ pc = "dispatch"
                => /\ config = c
                   /\ exitCode = 0
                   /\ log[6].x = "ok" => file = FileOf(c)
                   /\ log[6].x = "failed" => file = start.file

\* C25 witness: an invocation of `list` that found a corrupt file has set
\* the config up, overwritten the file and listed the workspaces.
C25_Witness ==
  /\ start.file.kind = "corrupt"
  /\ pc = "done"
  /\ cmd.type = "list"
  /\ Logged(Prompt("workspace", " ~/workspace "))
  /\ file.kind = "ok"
  /\ file.cfg.workspace = WorkspaceSetting
  /\ file.cfg.lastProjectPath = Undefined
  /\ Did("stdout")
  /\ exitCode = 0

(***************************************************************************)
(* Overlapping invocations, checked under SpecRace.                        *)
(***************************************************************************)

\* The configs the file may hold: the one it held before the invocations
\* started, and those an invocation wrote.
WrittenConfigs == {writes[k].cfg : k \in 1..Len(writes)}

\* Invocation p has changed its own field and written its config.
Wrote(p) ==
  /\ procs[p].pc = "done"
  /\ \E k \in 1..Len(writes) :
       writes[k].by = p /\ writes[k].cfg = procs[p].config

\* C26: with overlapping invocations every write replaces the whole file
\* with the writer's in-memory config: once something was written the file
\* holds exactly the config of the last writer, never a mix of the fields
\* of several configs, and before that it is as the invocations found it.
\* (That an earlier writer's field can be lost is the witness.)
C26_LastWriterWins ==
  /\ writes = <<>> => file = start.file
  /\ writes # <<>>
       => /\ file = FileOf(writes[Len(writes)].cfg)
          /\ file.cfg \in WrittenConfigs

\* C26 witness: invocation 1 set ide to vim and wrote it, invocation 2
\* opened a project and wrote last, and the file has lost the ide of 1.
C26_Witness ==
  /\ procs[1].op = SetOp("ide", "vim")
  /\ procs[2].op.kind = "open"
  /\ Wrote(1) /\ Wrote(2)
  /\ writes[Len(writes)].by = 2
  /\ procs[1].config.ide = "vim"
  /\ file.kind = "ok"
  /\ file.cfg.ide # "vim"
  /\ file.cfg.lastProjectPath = procs[2].op.value

\* A non-empty string with no whitespace at either end.
IsTrimmed(s) ==
  /\ s # Undefined
  /\ s # ""
  /\ ~IsSpace(SubSeq(s, 1, 1))
  /\ ~IsSpace(SubSeq(s, Len(s), Len(s)))

\* The running invocation has loaded its config or created it.
HasConfig ==
  /\ pc # "idle"
  /\ Logged(Ev("read", "config", "ok")) \/ Logged(Out("Created config", ""))

LaunchedPaths ==
  IF OpensProject THEN {log[i].y : i \in Places("spawn")} ELSE {}

\* lastProjectPath in the file changes in this step only if the step is the
\* save of a non-dry-run open of an existing directory, which sets it to
\* that directory, or first-run setup writing a new config without it.
LastProjectPathStep ==
  FileLastProjectPath(file') # FileLastProjectPath(file)
  => \/ /\ pc = "updateLastProjectPath"
        /\ ~fr.flags.dryRun
        /\ IsDirectory(fr.path)
        /\ FileLastProjectPath(file') = fr.path
     \/ /\ pc = "initialize"
        /\ file.kind # "ok"
        /\ FileLastProjectPath(file') = Undefined

\* An invocation that launched the editor on P holds P as lastProjectPath,
\* and so does the file once its write went through.
LaunchedIsLast ==
  \A P \in LaunchedPaths :
    /\ config.lastProjectPath = P
    /\ Logged(Ev("save", "ok", P)) => FileLastProjectPath(file) = P

\* The no-argument invocation that follows one that saved and launched P
\* opens P when P is a directory.
NextOpensLast ==
  (/\ pc = "done"
   /\ cmd.type = "last"
   /\ Truthy(hist.launched)
   /\ IsDirectory(hist.launched))
  => /\ FileLastProjectPath(start.file) = hist.launched
     /\ Logged(Ev("open", hist.launched, ""))
     /\ fr.path = hist.launched

\* C28: across the invocations, lastProjectPath changes only in the save of
\* a non-dry-run open of an existing directory (or when first-run setup
\* writes a new config); an invocation that launched the editor on P leaves
\* lastProjectPath = P, and the no-argument invocation after it opens P if
\* P is a directory.
C28_LastProjectPath ==
  [][LastProjectPathStep /\ LaunchedIsLast' /\ NextOpensLast']_vars

\* C28 witness: the invocation before launched the editor on myapp, and the
\* no-argument invocation after it has opened myapp and launched the editor
\* on it again.
C28_Witness ==
  /\ pc = "done"
  /\ cmd.type = "last"
  /\ hist.launched = MyappDir
  /\ Logged(Ev("open", MyappDir, ""))
  /\ MyappDir \in LaunchedPaths

(***************************************************************************)
(* Workspace names and their directories, checked under SpecList.          *)
(***************************************************************************)

\* The paths of the child directories of the root whose names end with
\* "-work": the directories listWorkspaces derives its names from.
WorkspaceDirectories ==
  {join(resolve(expandHomePath(config.workspace)), entries.list[i].name) :
     i \in {j \in 1..Len(entries.list) : IsWorkspaceEntry(entries.list[j])}}

\* C29: for every name n that listWorkspaces returns, the workspace path
\* computed for n (the root joined with n + "-work") is the directory n was
\* derived from, and every such directory is the path of a returned name,
\* so that the projects `list` counts for n are those of that directory.
C29_WorkspacePath ==
  (pc = "returnedWorkspaces" /\ entries.readable)
  => /\ \A k \in 1..Len(returned) :
          getWorkspacePath(config, returned[k]) \in WorkspaceDirectories
     /\ \A d \in WorkspaceDirectories :
          \E k \in 1..Len(returned) : getWorkspacePath(config, returned[k]) = d

(***************************************************************************)
(* Failed writes of the config file, checked under Spec.                   *)
(***************************************************************************)

\* The places in a log of the writes that failed.
FailedSaves(l) == {i \in 1..Len(l) : l[i].ev = "save" /\ l[i].x = "failed"}

\* A write of the config file fails in this step.
SaveFailsInStep ==
  Cardinality(FailedSaves(log')) > Cardinality(FailedSaves(log))

\* The step in which a write fails leaves the file and the exit code as
\* they were, reports the failure and goes on as after a good write:
\* `config --set` reports the update and ends with exit code 0, an open
\* goes on to resolve the IDE command, first-run setup returns the config.
FailedSaveStep ==
  SaveFailsInStep
  => /\ file' = file
     /\ exitCode' = exitCode
     /\ \E i \in FailedSaves(log') :
          i < Len(log') /\ log'[i + 1] = Err("Error saving config", "")
     /\ pc \in {"setConfigValue", "updateLastProjectPath", "initialize"}
     /\ pc = "setConfigValue"
          => /\ pc' = "done"
             /\ exitCode' = 0
             /\ log'[Len(log')].ev = "stdout"
             /\ StartsWith(log'[Len(log')].x, "Updated ")
     /\ pc = "updateLastProjectPath" => pc' = "validateIdeBinary"
     /\ pc = "initialize" => pc' = fr.next

\* An open whose write failed has still resolved the IDE command, and has
\* started the editor when the command was found; its exit code is 0 when
\* the editor's is.
FailedSaveOpen ==
  (/\ pc = "done"
   /\ OpensProject
   /\ Truthy(fr.path)
   /\ Logged(Ev("save", "failed", fr.path)))
  => /\ Did("resolve")
     /\ \A i \in Places("resolve") :
          (log[i].y # NotFound /\ ~IsDirectory(log[i].y))
            => /\ Logged(Ev("spawn", log[i].y, fr.path))
               /\ Did("exited")
     /\ Logged(Ev("exited", fr.exe, "0")) => exitCode = 0

\* C30: a failure to write the config file is swallowed: it changes neither
\* the exit code nor the file and does not stop the flow; after it
\* `config --set` still reports the update and ends with exit code 0, and
\* an open still resolves the IDE command and launches the editor.
C30_FailedWrite == [][FailedSaveStep /\ FailedSaveOpen']_vars

\* C30 witness: the write of lastProjectPath failed, the editor was launched
\* on the project all the same and exited with 0; the invocation ended with
\* exit code 0 and the file is as it was found.
C30_Witness ==
  /\ pc = "done"
  /\ Logged(Ev("save", "failed", MyappDir))
  /\ Logged(Ev("spawn", "/usr/bin/cursor", MyappDir))
  /\ Logged(Ev("exited", "/usr/bin/cursor", "0"))
  /\ exitCode = 0
  /\ start.file.kind = "ok"
  /\ file = start.file

====
